---- MODULE Spec2Model ----
(***************************************************************************)
(* The template interpreter of little-rs (src/src/interpreter.rs): the     *)
(* stack machine InterpreterStream::execute, the pull-based reader         *)
(* InterpreterStream::read with consume_buf, and the value memory Values.  *)
(* The value type is the one of tests/mock/mod.rs (Null, Int, Str).        *)
(*                                                                         *)
(* A read call is modelled in small steps: ReadBegin(n) is the consumer    *)
(* calling read with a destination of n bytes, ReadLoop is one iteration   *)
(* of the loop of read (which either finds the buffer long enough, or      *)
(* executes one instruction), so a template that loops for ever is a cycle *)
(* of the state graph and not a diverging evaluation.                      *)
(***************************************************************************)
EXTENDS Integers, Sequences, FiniteSets, TLC

\* ---------------------------------------------------------------- bounds
\* Longest template of the general family.
MaxInstr == 3
\* Largest destination buffer a consumer passes to read.
MaxReported == 2
MaxSteps == 8
MaxDst == 3
\* Exploration stops once this many bytes were written by Output in one run.
MaxEmitted == 6
\* Exploration stops once the operand stack is this deep.
MaxStack == 4
\* Largest Jump / CondJump target tried; the templates that jump hold 4
\* instructions, so the targets reach past the end.
MaxTarget == 5

\* src/src/interpreter.rs:36
MAX_VALUES == 500000

\* ---------------------------------------------------------------- values
\* tests/mock/mod.rs: enum Value { Null, Int(i64), Str(String), .. }.  Every
\* value carries the same fields so that any two values can be compared.
Null == [t |-> "Null", i |-> 0, s |-> <<>>]
IntV(n) == [t |-> "Int", i |-> n, s |-> <<>>]
StrV(bytes) == [t |-> "Str", i |-> 0, s |-> bytes]

\* impl Default for Value
default == Null

RECURSIVE digits(_)
\* The decimal digits of a natural number, as ASCII bytes.
digits(n) ==
    IF n < 10 THEN <<48 + n>> ELSE digits(n \div 10) \o <<48 + (n % 10)>>

\* impl fmt::Display for Value: Null writes nothing, Int its decimal form,
\* Str its bytes.
display(v) ==
    CASE v.t = "Null" -> <<>>
      [] v.t = "Int" -> IF v.i < 0 THEN <<45>> \o digits(0 - v.i) ELSE digits(v.i)
      [] v.t = "Str" -> v.s

RECURSIVE cmp_bytes(_, _)
\* Lexicographic comparison of two byte strings (String::partial_cmp).
cmp_bytes(a, b) ==
    IF a = <<>> /\ b = <<>> THEN "Equal"
    ELSE IF a = <<>> THEN "Less"
    ELSE IF b = <<>> THEN "Greater"
    ELSE IF Head(a) < Head(b) THEN "Less"
    ELSE IF Head(a) > Head(b) THEN "Greater"
    ELSE cmp_bytes(Tail(a), Tail(b))

\* impl PartialOrd for Value: values of different variants do not compare.
partial_cmp(a, b) ==
    CASE a.t = "Null" /\ b.t = "Null" -> "Equal"
      [] a.t = "Int" /\ b.t = "Int" ->
            IF a.i < b.i THEN "Less" ELSE IF a.i > b.i THEN "Greater" ELSE "Equal"
      [] a.t = "Str" /\ b.t = "Str" -> cmp_bytes(a.s, b.s)
      [] OTHER -> "None"

\* ------------------------------------------------------- instruction set
Mem_Const(i) == [kind |-> "Const", i |-> i]
Mem_Binding(i) == [kind |-> "Binding", i |-> i]
Mem_Param(i) == [kind |-> "Param", i |-> i]
Mem_StackTop1 == [kind |-> "StackTop1", i |-> 0]
Mem_StackTop2 == [kind |-> "StackTop2", i |-> 0]
Mem_Parameters == [kind |-> "Parameters", i |-> 0]

NoInstr ==
    [op |-> "None", mem |-> Mem_StackTop1, n |-> 0, loc |-> 0, cond |-> "Eq",
     returns |-> FALSE]
Output(m) == [NoInstr EXCEPT !.op = "Output", !.mem = m]
Pop(c) == [NoInstr EXCEPT !.op = "Pop", !.n = c]
Push(m) == [NoInstr EXCEPT !.op = "Push", !.mem = m]
Load(b, m) == [NoInstr EXCEPT !.op = "Load", !.n = b, !.mem = m]
Jump(loc) == [NoInstr EXCEPT !.op = "Jump", !.loc = loc]
CondJump(loc, m, cond) ==
    [NoInstr EXCEPT !.op = "CondJump", !.loc = loc, !.mem = m, !.cond = cond]
\* Call(call, argc, returns): loc holds the call id, n holds argc.
Call(call, argc, returns) ==
    [NoInstr EXCEPT !.op = "Call", !.loc = call, !.n = argc, !.returns = returns]
Interupt == [NoInstr EXCEPT !.op = "Interupt"]

Conds == {"Eq", "Ne", "Gt", "Lt", "Gte", "Lte"}

\* ------------------------------------------------------------ error kinds
NoError == [kind |-> "None", id |-> 0]
ParameterMissing(i) == [kind |-> "ParameterMissing", id |-> i]
ConstantMissing(i) == [kind |-> "ConstantMissing", id |-> i]
CallMissing(i) == [kind |-> "CallMissing", id |-> i]
CallError == [kind |-> "CallError", id |-> 0]
StackUnderflow == [kind |-> "StackUnderflow", id |-> 0]
ErrInterupt == [kind |-> "Interupt", id |-> 0]

\* impl error::Error for Error: description()
description(e) ==
    CASE e.kind = "ParameterMissing" -> "parameter is missing"
      [] e.kind = "ConstantMissing" -> "constant is missing"
      [] e.kind = "CallMissing" -> "call is missing"
      [] e.kind = "CallError" -> "call error"
      [] e.kind = "StackUnderflow" -> "stack underflow"
      [] e.kind = "Interupt" -> "interupt"
      [] OTHER -> ""

VARIABLES
    instructions,     \* Process.instructions
    constants,        \* Process.constants : Constant -> V
    calls,            \* Process.calls : Call -> host function
    parameters,       \* Values.parameters : Parameter -> V
    root,             \* the root input value the stream was created for
    overflow_checks,  \* whether the build traps integer overflow (debug)
    usize_bits,       \* the width of usize on the target: 32 or 64
    wild_write,       \* what a write through get_unchecked_mut past the end
                      \* of the vector does: "crash" or "stray"
    pc,               \* InterpreterStream.pc
    buf,              \* InterpreterStream.buf
    stack,            \* Values.stack
    values,           \* Values.values, the bindings
    status,           \* "idle", "reading" (inside read) or "panicked"
    dst_len,          \* length of the destination of the read in progress
    ret,              \* what the last finished read returned
    ev,               \* what the last loop iteration of read did
    emitted,          \* history: every byte written by Output, in order
    delivered,        \* history: every byte handed to the consumer, in order
    failed,           \* history: the first error other than Interupt a read returned
    calls_template,   \* Template.calls_template.key_indices : name -> Call
    host_calls,       \* the calls map given to build_processor : name -> function
    build_result,     \* what build_processor returned
    peeked,           \* what the last peek_stack returned
    input,            \* the bytes of a Cursor read from
    position,         \* the position of that Cursor
    output,           \* a Vec<u8> written to
    header,           \* bytecode::Header (its magic)
    ser_result,       \* what the last Header::serialize returned
    de_result,        \* what the last Header::deserialize returned
    scratch,          \* the buf handed to forward_len
    len_left,         \* forward_len: len, what is still to copy
    short_reads,      \* whether the input may read fewer bytes than asked
    fwd_status,       \* "idle" or "running" (inside forward_len)
    fwd_call,         \* history: where the call in progress started
    reported,         \* history: the errors the reads reported, each with
                      \* the number of bytes delivered before it
    steps,            \* history: the instructions executed so far
    other,            \* a second stream of the same process, set aside
    executable,       \* what Compiler::build returned
    compiled_status,  \* the CompilerStream: "none", "idle"
    compiled_ret,     \* what the last read of the CompilerStream returned
    compiled          \* history: the bytes the CompilerStream delivered

process ==
    <<instructions, constants, calls, parameters, root, overflow_checks,
      usize_bits, wild_write>>
machine == <<pc, buf, stack, values>>
build_vars == <<calls_template, host_calls, build_result>>
\* What no read of a stream touches.
io_vars == <<input, position, output>>
header_vars == <<header, ser_result, de_result>>
forward_vars == <<scratch, len_left, short_reads, fwd_status, fwd_call>>
compiler_vars == <<executable, compiled_status, compiled_ret, compiled>>
outside ==
    <<build_vars, peeked, io_vars, header_vars, forward_vars, other,
      compiler_vars>>
vars ==
    <<instructions, constants, calls, parameters, root, overflow_checks,
      usize_bits, wild_write, pc, buf, stack, values, status, dst_len, ret, ev,
      emitted, delivered, failed, calls_template, host_calls, build_result,
      peeked, input, position, output, header, ser_result, de_result,
      scratch, len_left, short_reads, fwd_status, fwd_call, reported, steps,
      other,
      executable, compiled_status, compiled_ret, compiled>>

\* ------------------------------------------------------------ Values
\* The outcome of resolving a Mem: Ok(value), Err(error), or a panic.
MemOk(v) == [res |-> "Ok", v |-> v, err |-> NoError]
MemErr(e) == [res |-> "Err", v |-> default, err |-> e]
MemPanic == [res |-> "Panic", v |-> default, err |-> NoError]

\* Binding(u32::MAX), the last binding index.  It is past the integers TLC
\* has, so this one index is written as its bit pattern read as an i32; every
\* other index used is its own number.
U32_MAX == -1

\* index as usize < len, for a vector length len
index_below(index, len) == index # U32_MAX /\ index < len

\* Values::get reading the last slot for an index beyond the vector.
get_clamped(index) ==
    IF values = <<>> THEN default
    ELSE IF ~index_below(index, Len(values)) THEN values[Len(values)]
    ELSE values[index + 1]

\* Values::get: a binding that was never stored reads as the default.
get(index) ==
    IF ~index_below(index, Len(values)) THEN default ELSE values[index + 1]

\* StackTop2 counted from the bottom of the stack.
stack_top2_from_bottom ==
    IF Len(stack) >= 2 THEN MemOk(stack[2])
    ELSE IF overflow_checks THEN MemPanic
    ELSE MemErr(StackUnderflow)

\* Mem::StackTop2 => self.stack.get(self.stack.len() - 2).  With fewer than
\* two items the subtraction overflows usize: a build that checks overflow
\* panics there, a build that does not wraps to an index far past the end,
\* which Vec::get answers with None.
stack_top2 ==
    IF Len(stack) >= 2 THEN MemOk(stack[Len(stack) - 1])
    ELSE IF overflow_checks THEN MemPanic
    ELSE MemErr(StackUnderflow)

\* Mem::Parameters: the whole root value.
get_parameters == MemOk(root)

\* get_mem_value answering a missing constant or parameter with the default.
get_mem_value_or_default(mem) ==
    CASE mem.kind = "Binding" -> MemOk(get(mem.i))
      [] mem.kind = "Param" ->
            IF mem.i \in DOMAIN parameters THEN MemOk(parameters[mem.i])
            ELSE MemOk(default)
      [] mem.kind = "Const" ->
            IF mem.i \in DOMAIN constants THEN MemOk(constants[mem.i])
            ELSE MemOk(default)
      [] mem.kind = "StackTop1" ->
            IF Len(stack) >= 1 THEN MemOk(stack[Len(stack)])
            ELSE MemErr(StackUnderflow)
      [] mem.kind = "StackTop2" -> stack_top2
      [] mem.kind = "Parameters" -> get_parameters

\* Values::get_mem_value
get_mem_value(mem) ==
    CASE mem.kind = "Binding" -> MemOk(get(mem.i))
      [] mem.kind = "Param" ->
            IF mem.i \in DOMAIN parameters THEN MemOk(parameters[mem.i])
            ELSE MemErr(ParameterMissing(mem.i))
      [] mem.kind = "Const" ->
            IF mem.i \in DOMAIN constants THEN MemOk(constants[mem.i])
            ELSE MemErr(ConstantMissing(mem.i))
      [] mem.kind = "StackTop1" ->
            IF Len(stack) >= 1 THEN MemOk(stack[Len(stack)])
            ELSE MemErr(StackUnderflow)
      [] mem.kind = "StackTop2" -> stack_top2
      [] mem.kind = "Parameters" -> get_parameters

\* let required_len = index + 1, in usize.  Only u32::MAX on a 32-bit target
\* overflows: a build that checks overflow panics, one that does not wraps
\* to 0.  On a 64-bit target u32::MAX + 1 is 2^32, which is all a caller
\* compares against MAX_VALUES: it is given as MAX_VALUES + 1.
required_len(index) ==
    IF index # U32_MAX THEN [panic |-> FALSE, len |-> index + 1]
    ELSE IF usize_bits = 64 THEN [panic |-> FALSE, len |-> MAX_VALUES + 1]
    ELSE IF overflow_checks THEN [panic |-> TRUE, len |-> 0]
    ELSE [panic |-> FALSE, len |-> 0]

\* ensure_capacity_for_index growing the vector to hold index - 1 only.
ensure_capacity_short(index) ==
    LET required == required_len(index) IN
    IF required.panic \/ required.len > MAX_VALUES
    THEN [panic |-> TRUE, values |-> values]
    ELSE IF required.len > Len(values) + 1
         THEN [panic |-> FALSE,
               values |-> values \o [k \in 1..(required.len - 1 - Len(values)) |-> default]]
         ELSE IF required.len > Len(values)
              THEN [panic |-> FALSE, values |-> Append(values, default)]
              ELSE [panic |-> FALSE, values |-> values]

\* Values::ensure_capacity_for_index: the binding vector grown with defaults
\* to hold index; a panic past MAX_VALUES.
ensure_capacity_for_index(index) ==
    LET required == required_len(index) IN
    IF required.panic \/ required.len > MAX_VALUES
    THEN [panic |-> TRUE, values |-> values]
    ELSE IF required.len > Len(values)
         THEN [panic |-> FALSE,
               values |-> values \o [k \in 1..(required.len - Len(values)) |-> default]]
         ELSE [panic |-> FALSE, values |-> values]

\* Values::set writing the slot before the one asked for.
set_off_by_one(index, value) ==
    LET grown == ensure_capacity_for_index(index) IN
    IF grown.panic \/ index = U32_MAX \/ index = 0 THEN grown
    ELSE [grown EXCEPT !.values = [grown.values EXCEPT ![index] = value]]

\* Values::set.  The write goes through get_unchecked_mut: for an index the
\* vector does not hold it is undefined behaviour, which either stops the
\* process (a fault on the wild address) or lands outside the fields of the
\* stream and lets it run on.
set(index, value) ==
    LET grown == ensure_capacity_for_index(index) IN
    IF grown.panic THEN grown
    ELSE IF index_below(index, Len(grown.values))
         THEN [grown EXCEPT !.values = [grown.values EXCEPT ![index + 1] = value]]
         ELSE [panic |-> wild_write = "crash", values |-> grown.values]

\* ------------------------------------------------------ host functions
\* trait Function: invoke(&[V]) -> LittleResult<V>.  Two host functions are
\* supplied: "first" returns its first argument (Null without arguments),
\* "fail" returns an error.
invoke(f, args) ==
    CASE f = "first" ->
            [ok |-> TRUE, v |-> IF Len(args) >= 1 THEN args[1] ELSE Null]
      [] f = "fail" -> [ok |-> FALSE, v |-> default]

NoCall == [called |-> FALSE, f |-> "", args |-> <<>>, ok |-> TRUE]

\* ------------------------------------------------------ the stack machine
\* The outcome of InterpreterStream::execute: its result ("Done", "Continue",
\* "Interupt", "Err" or "Panic"), the error of "Err", the fields it leaves
\* behind, and the host invocation it made.
Outcome(res, err, npc, nbuf, nstack, nvalues, inv) ==
    [res |-> res, err |-> err, pc |-> npc, buf |-> nbuf, stack |-> nstack,
     values |-> nvalues, inv |-> inv]

\* An early return Err(..) that has already advanced pc.
Fail_advances(e, nstack) == Outcome("Err", e, pc + 1, buf, nstack, values, NoCall)

\* try!(..) on a failed resolution, and every early return Err(..): nothing
\* but the given stack is changed.
Fail(e, nstack) == Outcome("Err", e, pc, buf, nstack, values, NoCall)
Panicked == Outcome("Panic", NoError, pc, buf, stack, values, NoCall)
\* The fall-through of the match stepping over the next instruction.
Advance_skips(nbuf, nstack, nvalues, inv) ==
    Outcome("Continue", NoError, pc + 2, nbuf, nstack, nvalues, inv)

\* The fall-through of the match: self.pc += 1; Ok(Continue).
Advance(nbuf, nstack, nvalues, inv) ==
    Outcome("Continue", NoError, pc + 1, nbuf, nstack, nvalues, inv)

\* Output overwriting the buffer instead of appending to it.
exec_Output_overwrites(m) ==
    LET r == get_mem_value(m) IN
    CASE r.res = "Err" -> Fail(r.err, stack)
      [] r.res = "Panic" -> Panicked
      [] OTHER -> Advance(display(r.v), stack, values, NoCall)

\* Instruction::Output
exec_Output(m) ==
    LET r == get_mem_value(m) IN
    CASE r.res = "Err" -> Fail(r.err, stack)
      [] r.res = "Panic" -> Panicked
      [] OTHER -> Advance(buf \o display(r.v), stack, values, NoCall)

\* Pop that stops at an empty stack instead of failing.
pop_loop_saturating(s, c) ==
    [ok |-> TRUE,
     stack |-> IF c >= Len(s) THEN <<>> ELSE SubSeq(s, 1, Len(s) - c)]

\* Pop taking the items from the bottom of the stack.
pop_loop_from_bottom(s, c) ==
    IF c > Len(s) THEN [ok |-> FALSE, stack |-> <<>>]
    ELSE [ok |-> TRUE, stack |-> SubSeq(s, c + 1, Len(s))]

\* Pop checking the height of the stack before it removes anything.
pop_loop_atomic(s, c) ==
    IF c > Len(s) THEN [ok |-> FALSE, stack |-> s]
    ELSE [ok |-> TRUE, stack |-> SubSeq(s, 1, Len(s) - c)]

RECURSIVE pop_loop(_, _)
\* while c > 0 { if let None = stack.pop() { return Err } c -= 1 }: the
\* stack left behind and whether the loop ran to its end.
pop_loop(s, c) ==
    IF c > 0
    THEN IF s = <<>> THEN [ok |-> FALSE, stack |-> s]
         ELSE pop_loop(SubSeq(s, 1, Len(s) - 1), c - 1)
    ELSE [ok |-> TRUE, stack |-> s]

\* Instruction::Pop
exec_Pop(c) ==
    LET r == pop_loop(stack, c) IN
    IF r.ok THEN Advance(buf, r.stack, values, NoCall)
    ELSE Fail(StackUnderflow, r.stack)

\* Push overwriting the top of a non-empty stack.
exec_Push_over_top(m) ==
    LET r == get_mem_value(m) IN
    CASE r.res = "Err" -> Fail(r.err, stack)
      [] r.res = "Panic" -> Panicked
      [] OTHER ->
            Advance(buf,
                    IF stack = <<>> THEN <<r.v>>
                    ELSE [stack EXCEPT ![Len(stack)] = r.v],
                    values, NoCall)

\* Instruction::Push
exec_Push(m) ==
    LET r == get_mem_value(m) IN
    CASE r.res = "Err" -> Fail(r.err, stack)
      [] r.res = "Panic" -> Panicked
      [] OTHER -> Advance(buf, Append(stack, r.v), values, NoCall)

\* Load leaving what it stored on top of the stack as well.
exec_Load_through_stack(binding, m) ==
    LET r == get_mem_value(m) IN
    CASE r.res = "Err" -> Fail(r.err, stack)
      [] r.res = "Panic" -> Panicked
      [] OTHER ->
            LET stored == set(binding, r.v) IN
            IF stored.panic THEN Panicked
            ELSE Advance(buf,
                         IF stack = <<>> THEN stack
                         ELSE [stack EXCEPT ![Len(stack)] = r.v],
                         stored.values, NoCall)

\* Instruction::Load
exec_Load(binding, m) ==
    LET r == get_mem_value(m) IN
    CASE r.res = "Err" -> Fail(r.err, stack)
      [] r.res = "Panic" -> Panicked
      [] OTHER ->
            LET stored == set(binding, r.v) IN
            IF stored.panic THEN Panicked
            ELSE Advance(buf, stack, stored.values, NoCall)

\* Jump that does not assign pc and advances like the other instructions.
exec_Jump_not_taken(loc) ==
    Outcome("Continue", NoError, pc + 1, buf, stack, values, NoCall)

\* Jump falling through to the pc += 1 of the other instructions.
exec_Jump_falls_through(loc) ==
    Outcome("Continue", NoError, loc + 1, buf, stack, values, NoCall)

\* Jump that leaves pc where it is.
exec_Jump_to_self(loc) == Outcome("Continue", NoError, pc, buf, stack, values, NoCall)

\* Instruction::Jump
exec_Jump(loc) == Outcome("Continue", NoError, loc, buf, stack, values, NoCall)

\* should_jump with Gte computed as the negation of Lt.
should_jump_gte_not_lt(cond, top, value) ==
    LET o == partial_cmp(top, value) IN
    CASE cond = "Eq" -> top = value
      [] cond = "Gt" -> o = "Greater"
      [] cond = "Gte" -> o # "Less"
      [] cond = "Lt" -> o = "Less"
      [] cond = "Lte" -> o \in {"Less", "Equal"}
      [] cond = "Ne" -> top # value

\* should_jump with the operands exchanged: the Mem value on the left.
should_jump_swapped(cond, top, value) ==
    LET o == partial_cmp(value, top) IN
    CASE cond = "Eq" -> top = value
      [] cond = "Gt" -> o = "Greater"
      [] cond = "Gte" -> o \in {"Greater", "Equal"}
      [] cond = "Lt" -> o = "Less"
      [] cond = "Lte" -> o \in {"Less", "Equal"}
      [] cond = "Ne" -> top # value

\* let should_jump = match cond { .. }: == and != are PartialEq, the four
\* orderings are the PartialOrd methods over partial_cmp.
should_jump(cond, top, value) ==
    LET o == partial_cmp(top, value) IN
    CASE cond = "Eq" -> top = value
      [] cond = "Gt" -> o = "Greater"
      [] cond = "Gte" -> o \in {"Greater", "Equal"}
      [] cond = "Lt" -> o = "Less"
      [] cond = "Lte" -> o \in {"Less", "Equal"}
      [] cond = "Ne" -> top # value

\* Instruction::CondJump
exec_CondJump(loc, m, cond) ==
    LET r == get_mem_value(m) IN
    CASE r.res = "Err" -> Fail(r.err, stack)
      [] r.res = "Panic" -> Panicked
      [] OTHER ->
            IF stack = <<>> THEN Fail(StackUnderflow, stack)
            ELSE IF should_jump(cond, stack[Len(stack)], r.v)
                 THEN Outcome("Continue", NoError, loc, buf, stack, values, NoCall)
                 ELSE Advance(buf, stack, values, NoCall)

\* The argument slice taken from the bottom of the stack.
call_args_bottom(argc) ==
    IF argc > Len(stack) THEN [panic |-> TRUE, args |-> <<>>]
    ELSE [panic |-> FALSE, args |-> SubSeq(stack, 1, argc)]

\* &self.values.stack[stack_len - argc .. stack_len]; a panic when argc
\* exceeds the stack: the subtraction overflows (a checked build panics
\* there), and wrapped it is a slice start past its end, which panics too.
call_args(argc) ==
    IF argc > Len(stack) THEN [panic |-> TRUE, args |-> <<>>]
    ELSE [panic |-> FALSE, args |-> SubSeq(stack, Len(stack) - argc + 1, Len(stack))]

\* if returns { stack.push(result.unwrap()) }: the stack after the call, or
\* a panic when an error result is unwrapped.  Without returns the result is
\* dropped, error or not.
call_result(result, returns) ==
    IF returns
    THEN IF result.ok THEN [panic |-> FALSE, stack |-> Append(stack, result.v)]
         ELSE [panic |-> TRUE, stack |-> stack]
    ELSE [panic |-> FALSE, stack |-> stack]

\* Instruction::Call
exec_Call(call, argc, returns) ==
    IF call \notin DOMAIN calls THEN Fail(CallMissing(call), stack)
    ELSE LET a == call_args(argc) IN
         IF a.panic THEN Panicked
         ELSE LET result == invoke(calls[call], a.args)
                  inv == [called |-> TRUE, f |-> calls[call], args |-> a.args,
                          ok |-> result.ok]
                  pushed == call_result(result, returns)
              IN  IF pushed.panic
                  THEN [Panicked EXCEPT !.inv = inv]
                  ELSE Advance(buf, pushed.stack, values, inv)

\* Interupt returning without self.pc += 1.
exec_Interupt_stays == Outcome("Interupt", NoError, pc, buf, stack, values, NoCall)

\* Interupt throwing away what is buffered.
exec_Interupt_drops == Outcome("Interupt", NoError, pc + 1, <<>>, stack, values, NoCall)

\* Instruction::Interupt: self.pc += 1; return Ok(Interupt).
exec_Interupt == Outcome("Interupt", NoError, pc + 1, buf, stack, values, NoCall)

\* self.values.process.instructions.get(self.pc)
fetch == IF pc < Len(instructions) THEN instructions[pc + 1] ELSE NoInstr

\* peek_stack slicing from the bottom of the stack.
peek_stack_bottom(slice_size) ==
    IF Len(stack) < slice_size
    THEN [n |-> slice_size, some |-> FALSE, items |-> <<>>]
    ELSE [n |-> slice_size, some |-> TRUE, items |-> SubSeq(stack, 1, slice_size)]

\* InterpreterStream::peek_stack: None, or Some of the slice
\* stack[stack_len - slice_size .. stack_len].
peek_stack(slice_size) ==
    LET stack_len == Len(stack) IN
    IF stack_len < slice_size
    THEN [n |-> slice_size, some |-> FALSE, items |-> <<>>]
    ELSE [n |-> slice_size, some |-> TRUE,
          items |-> SubSeq(stack, stack_len - slice_size + 1, stack_len)]

NoPeek == [n |-> 0, some |-> FALSE, items |-> <<>>]

\* execute answering the end of the instructions with an error.
execute_end_fails ==
    LET i == fetch IN
    CASE i.op = "None" -> Fail(StackUnderflow, stack)
      [] i.op = "Output" -> exec_Output(i.mem)
      [] i.op = "Pop" -> exec_Pop(i.n)
      [] i.op = "Push" -> exec_Push(i.mem)
      [] i.op = "Load" -> exec_Load(i.n, i.mem)
      [] i.op = "Jump" -> exec_Jump(i.loc)
      [] i.op = "CondJump" -> exec_CondJump(i.loc, i.mem, i.cond)
      [] i.op = "Call" -> exec_Call(i.loc, i.n, i.returns)
      [] i.op = "Interupt" -> exec_Interupt

\* InterpreterStream::execute
execute ==
    LET i == fetch IN
    CASE i.op = "None" -> Outcome("Done", NoError, pc, buf, stack, values, NoCall)
      [] i.op = "Output" -> exec_Output(i.mem)
      [] i.op = "Pop" -> exec_Pop(i.n)
      [] i.op = "Push" -> exec_Push(i.mem)
      [] i.op = "Load" -> exec_Load(i.n, i.mem)
      [] i.op = "Jump" -> exec_Jump(i.loc)
      [] i.op = "CondJump" -> exec_CondJump(i.loc, i.mem, i.cond)
      [] i.op = "Call" -> exec_Call(i.loc, i.n, i.returns)
      [] i.op = "Interupt" -> exec_Interupt

\* consume_buf copying the bytes out without removing them from the buffer.
consume_buf_keeps(b, n) ==
    LET k == IF Len(b) >= n THEN n ELSE Len(b) IN
    [n |-> k, out |-> SubSeq(b, 1, k), buf |-> b]

\* consume_buf copying from the back of the buffer.
consume_buf_from_back(b, n) ==
    LET k == IF Len(b) >= n THEN n ELSE Len(b) IN
    [n |-> k, out |-> SubSeq(b, Len(b) - k + 1, Len(b)),
     buf |-> SubSeq(b, 1, Len(b) - k)]

\* InterpreterStream::consume_buf: the count returned, the bytes written to
\* the start of the destination of length n, and the buffer left.
consume_buf(b, n) ==
    LET k == IF Len(b) >= n THEN n ELSE Len(b) IN
    [n |-> k, out |-> SubSeq(b, 1, k), buf |-> SubSeq(b, k + 1, Len(b))]

\* ------------------------------------------------------------ build
\* HashMap::insert
insert(map, i, v) ==
    [x \in DOMAIN map \cup {i} |-> IF x = i THEN v ELSE map[x]]

BuildOk(map) == [kind |-> "ok", map |-> map, required |-> ""]
BuildErr(k) == [kind |-> "err", map |-> <<>>, required |-> k]
NoBuild == [kind |-> "none", map |-> <<>>, required |-> ""]

\* OptionsTemplate::build leaving out the names the host map lacks.
build_skips_missing(order, map) ==
    LET present == SelectSeq(order, LAMBDA k : k \in DOMAIN host_calls)
        put[n \in 0..Len(present)] ==
            IF n = 0 THEN map
            ELSE insert(put[n - 1], calls_template[present[n]],
                        host_calls[present[n]])
    IN  BuildOk(put[Len(present)])

RECURSIVE build(_, _)
\* OptionsTemplate::build: the loop over key_indices, in the order the
\* HashMap yields its entries, from the map built so far.
build(order, map) ==
    IF order = <<>> THEN BuildOk(map)
    ELSE LET k == Head(order) IN
         IF k \in DOMAIN host_calls
         THEN build(Tail(order), insert(map, calls_template[k], host_calls[k]))
         ELSE BuildErr(k)

\* The orders in which a HashMap may yield the keys S.
Orders(S) ==
    {o \in [1..Cardinality(S) -> S] :
        \A i, j \in 1..Cardinality(S) : i # j => o[i] # o[j]}

\* ------------------------------------------------------------ bytecode
\* Header::magic
magic == 52231103

\* Header::new
Header_new == [magic |-> magic]

\* Header::is_magical
is_magical(h) == h.magic = magic

\* mem::size_of::<Header>(): one u32
size_of_Header == 4

\* write_u32 in big-endian order.
write_u32_be(n) ==
    <<(n \div 16777216) % 256, (n \div 65536) % 256, (n \div 256) % 256, n % 256>>

\* output.write_u32::<LittleEndian>(n): the four bytes written
write_u32_le(n) ==
    <<n % 256, (n \div 256) % 256, (n \div 65536) % 256, (n \div 16777216) % 256>>

\* input.read_u32::<LittleEndian>() of four bytes
read_u32_le(b) == b[1] + 256 * b[2] + 65536 * b[3] + 16777216 * b[4]

NoSer == [kind |-> "none", n |-> 0]
NoDe == [kind |-> "none", n |-> 0, at |-> 0, header |-> Header_new]

\* Header::serialize into a Vec: the bytes appended and the result.
serialize(h) ==
    [bytes |-> write_u32_le(h.magic),
     result |-> [kind |-> "ok", n |-> size_of_Header]]

\* deserialize reading a u16 where the Header holds a u32.
deserialize_u16(b, p) ==
    IF Len(b) - p >= 2
    THEN [result |-> [kind |-> "ok", n |-> size_of_Header, at |-> p,
                      header |-> [magic |-> b[p + 1] + 256 * b[p + 2]]],
          position |-> p + 2]
    ELSE [result |-> [kind |-> "UnexpectedEOF", n |-> 0, at |-> p,
                      header |-> Header_new],
          position |-> Len(b)]

\* Header::deserialize from a Cursor over bytes b at position p: the result
\* and the position left.  read_u32 on fewer than four bytes takes what is
\* there and fails with UnexpectedEOF.
deserialize(b, p) ==
    IF Len(b) - p >= 4
    THEN [result |-> [kind |-> "ok", n |-> size_of_Header, at |-> p,
                      header |-> [magic |-> read_u32_le(SubSeq(b, p + 1, p + 4))]],
          position |-> p + 4]
    ELSE [result |-> [kind |-> "UnexpectedEOF", n |-> 0, at |-> p,
                      header |-> Header_new],
          position |-> Len(b)]

\* ------------------------------------------------------------ stream
\* What one call of Read::read with room for want bytes may return on an
\* input with avail bytes left: a Cursor gives all it can, another reader
\* may give less, but at least one byte while there are any.
ReadCounts(want, avail) ==
    LET most == IF want <= avail THEN want ELSE avail IN
    IF short_reads /\ most > 0 THEN 1..most ELSE {most}

\* buf after got bytes were read into its start from position p of input
filled(b, got, p) ==
    [k \in 1..Len(b) |-> IF k <= got THEN input[p + k] ELSE b[k]]

\* cp: input.take(buf.len()).read(buf), then output.write(buf), when the
\* read returned got.
cp(b, got) ==
    [buf |-> filled(b, got, position),
     position |-> position + got,
     written |-> filled(b, got, position)]

\* cp_len: input.take(len).read(buf), then output.write(&buf[..len]), when
\* the read returned got.
cp_len(n, b, got) ==
    [buf |-> filled(b, got, position),
     position |-> position + got,
     written |-> SubSeq(filled(b, got, position), 1, n)]

NoForward == [from |-> 0, len |-> 0, out |-> <<>>, copies |-> 0, got |-> 0]

\* ------------------------------------------------------------ templates
\* The constant table, the parameters and the resolved call table of the
\* runs explored.  Constant 9, parameter 2 and call 2 are in no table.
TheConstants ==
    (1 :> IntV(1)) @@ (2 :> IntV(2)) @@ (3 :> StrV(<<97, 98>>)) @@ (4 :> Null)
TheParameters == (1 :> StrV(<<99>>))
TheRoot == StrV(<<72, 105>>)
TheCalls == (0 :> "first") @@ (1 :> "fail")

Mems ==
    {Mem_Const(1), Mem_Const(2), Mem_Const(3), Mem_Const(4), Mem_Const(9),
     Mem_Param(1), Mem_Param(2), Mem_Binding(0), Mem_Binding(1),
     Mem_StackTop1, Mem_StackTop2, Mem_Parameters}

\* The instructions of the general family.
CoreInstrs ==
    {Output(Mem_Const(3)), Output(Mem_StackTop1), Output(Mem_Binding(0)),
     Push(Mem_Const(1)), Pop(1), Load(0, Mem_StackTop1), Jump(0), Interupt,
     Call(0, 1, TRUE)}

\* Every sequence over S of length at most n.
SeqsUpTo(S, n) == UNION {[1..k -> S] : k \in 0..n}

\* 0, 1 or 2 items pushed first: constant 1, then constant 2 on top.
Pushes == {<<>>, <<Push(Mem_Const(1))>>, <<Push(Mem_Const(1)), Push(Mem_Const(2))>>}

\* Every instruction that reads a Mem, over every Mem, after 0..2 pushes.
MemTemplates ==
    {p \o <<i, Output(Mem_Const(3))>> :
        p \in Pushes,
        i \in UNION {{Output(m), Push(m), Load(0, m), CondJump(3, m, "Eq")} : m \in Mems}}

\* The shape of test_cond_jump: a pushed value compared with a Mem.
CondTemplates ==
    {<<Push(a), CondJump(k, b, c), Output(Mem_Const(1)), Output(Mem_Const(3))>> :
        a \in {Mem_Const(1), Mem_Const(2), Mem_Const(3), Mem_Const(4)},
        b \in {Mem_Const(1), Mem_Const(2), Mem_Const(3), Mem_Const(4)},
        k \in 0..MaxTarget, c \in Conds}

\* The shape of run_function: a call over 0..3 arguments after 0..2 pushes.
CallTemplates ==
    {p \o <<Call(c, argc, r), Output(Mem_StackTop1)>> :
        p \in Pushes, c \in 0..2, argc \in 0..3, r \in BOOLEAN}

\* The shape of should_jump.
JumpTemplates ==
    {<<Output(Mem_Const(1)), Jump(k), Output(Mem_Const(2)), Output(Mem_Const(3))>> :
        k \in 0..MaxTarget}

\* Pop of 0..3 items after 0..2 pushes, with output before and after.
PopTemplates ==
    {<<Output(Mem_Const(3))>> \o p \o <<Pop(c), Output(Mem_StackTop1)>> :
        p \in Pushes, c \in 0..3}

\* A first Load, a Load from each kind of source, a Load that may or may not
\* hit the same binding, and the Output of the binding loaded second.
LoadTemplates ==
    {p \o <<Load(0, Mem_Const(3)), Load(b1, m), Load(b2, Mem_Const(2)),
            Output(Mem_Binding(b1))>> :
        p \in Pushes, m \in Mems, b1 \in 0..2, b2 \in 0..2}

\* Loads at the last index allowed, the first one refused, and the last
\* index a Binding can name.
BoundaryTemplates ==
    {<<Load(0, Mem_Const(1)), Load(b, Mem_Const(2)), Output(Mem_Binding(b))>> :
        b \in {MAX_VALUES - 1, MAX_VALUES, U32_MAX}}

\* Push of each kind of source followed at once by Pop(1).
PushPopTemplates ==
    {p \o <<Push(m), Pop(1), Output(Mem_StackTop1)>> :
        p \in Pushes, m \in Mems}

\* Three pushes and one instruction that reads the top of the stack or the
\* item beneath it; and two pushes of constants followed by a push of each.
StackTopTemplates ==
    {<<Push(Mem_Const(3)), Push(Mem_Const(1)), Push(Mem_Const(2)), i>> :
        i \in UNION {{Output(m), Push(m), Load(0, m), CondJump(0, m, "Gt")} :
                        m \in {Mem_StackTop1, Mem_StackTop2}}}
      \cup {<<Push(Mem_Const(1)), Push(Mem_Const(2)), Push(Mem_StackTop1),
              Push(Mem_StackTop2)>>}

\* A pushed Null, one Load at index 0 or 2 and an instruction that reads a
\* binding at, below or above the index loaded.
BindingTemplates ==
    {<<Push(Mem_Const(4)), Load(b, Mem_Const(3)), i, Output(Mem_Const(1))>> :
        b \in {0, 2},
        i \in UNION {{Output(Mem_Binding(r)), Push(Mem_Binding(r)),
                      Load(1, Mem_Binding(r)), CondJump(0, Mem_Binding(r), "Gt")} :
                        r \in 0..3}}

\* A binding pushed and then loaded again, and a stack item loaded and then
\* buried and popped.
CopyTemplates ==
    {<<Load(0, Mem_Const(3)), Push(Mem_Binding(0)), Load(0, Mem_Const(2)),
       Output(Mem_StackTop1), Output(Mem_Binding(0))>>,
     <<Push(Mem_Const(3)), Load(0, Mem_StackTop1), Push(Mem_Const(1)),
       Output(Mem_Binding(0)), Pop(2), Output(Mem_Binding(0))>>}

Templates ==
    SeqsUpTo(CoreInstrs, MaxInstr) \cup MemTemplates \cup CondTemplates
        \cup CallTemplates \cup JumpTemplates \cup PopTemplates
        \cup LoadTemplates \cup BoundaryTemplates \cup PushPopTemplates
        \cup StackTopTemplates \cup BindingTemplates \cup CopyTemplates

\* ------------------------------------------------------------ the run
NoRet == [kind |-> "none", n |-> 0, bytes |-> <<>>, err |-> NoError]
RetOk(c) == [kind |-> "ok", n |-> c.n, bytes |-> c.out, err |-> NoError]
RetErr(e) == [kind |-> "err", n |-> 0, bytes |-> <<>>, err |-> e]
RetPanic == [kind |-> "panic", n |-> 0, bytes |-> <<>>, err |-> NoError]

Event(kind, instr, o) ==
    [kind |-> kind, at |-> pc, instr |-> instr, res |-> o.res, err |-> o.err,
     inv |-> o.inv]
NoOutcome == Outcome("None", NoError, 0, <<>>, <<>>, <<>>, NoCall)

\* Whether a template loads into the last binding index.  The width of
\* usize and the fate of a wild write make a difference to these alone, so
\* the other templates are run on one target.
LoadsLastBinding(t) ==
    \E k \in 1..Len(t) : t[k].op = "Load" /\ t[k].n = U32_MAX

\* The stream of these variables, as one value.
Current ==
    [pc |-> pc, buf |-> buf, stack |-> stack, values |-> values,
     status |-> status, dst_len |-> dst_len, ret |-> ret, ev |-> ev,
     emitted |-> emitted, delivered |-> delivered, failed |-> failed,
     reported |-> reported, steps |-> steps]

\* Process::run handing out the state of the stream that is running.
run_shared == Current

\* Process::run: the new InterpreterStream.
run ==
    [pc |-> 0, buf |-> <<>>, stack |-> <<>>, values |-> <<>>,
     status |-> "idle", dst_len |-> 0, ret |-> NoRet,
     ev |-> Event("none", NoInstr, NoOutcome),
     emitted |-> <<>>, delivered |-> <<>>, failed |-> NoError,
     reported |-> <<>>, steps |-> 0]

\* No second stream was created.
NoOther == [run EXCEPT !.status = "none"]

NoExecutable == [built |-> FALSE, id |-> ""]

\* Compiler::build: Ok(Executable { id: id.into() }); the template and the
\* calls are only traced.
Compiler_build(id, template) == [built |-> TRUE, id |-> id]

\* CompilerStream::read: Ok(0), the destination untouched.
CompilerStream_read(n) == [kind |-> "ok", n |-> 0, bytes |-> <<>>, err |-> NoError]

\* No Compiler was asked to build.
NoCompiler ==
    /\ executable = NoExecutable
    /\ compiled_status = "none"
    /\ compiled_ret = NoRet
    /\ compiled = <<>>

\* The template call table and the host map that build to TheCalls.
TheCallsTemplate == ("first" :> 0) @@ ("fail" :> 1)
TheHostCalls == ("first" :> "first") @@ ("fail" :> "fail") @@ ("spare" :> "first")

\* No bytecode is being read or written.
NoBytecode ==
    /\ input = <<>>
    /\ position = 0
    /\ output = <<>>
    /\ header = Header_new
    /\ ser_result = NoSer
    /\ de_result = NoDe
    /\ scratch = <<>>
    /\ len_left = 0
    /\ short_reads = FALSE
    /\ fwd_status = "idle"
    /\ fwd_call = NoForward

\* Process::run: a fresh stream over a process built from a template of T.
StartWith(T, P) ==
    /\ instructions \in T
    /\ constants = TheConstants
    /\ calls_template = TheCallsTemplate
    /\ host_calls = TheHostCalls
    /\ build_result = BuildOk(TheCalls)
    /\ calls = TheCalls
    /\ parameters \in P
    /\ root = TheRoot
    /\ peeked = NoPeek
    /\ NoBytecode
    /\ overflow_checks \in BOOLEAN
    /\ usize_bits \in IF LoadsLastBinding(instructions) THEN {32, 64} ELSE {64}
    /\ wild_write \in IF LoadsLastBinding(instructions) /\ usize_bits = 32
                      THEN {"crash", "stray"} ELSE {"crash"}
    /\ pc = 0
    /\ buf = <<>>
    /\ stack = <<>>
    /\ values = <<>>
    /\ status = "idle"
    /\ dst_len = 0
    /\ ret = NoRet
    /\ ev = Event("none", NoInstr, NoOutcome)
    /\ emitted = <<>>
    /\ delivered = <<>>
    /\ failed = NoError
    /\ reported = <<>>
    /\ steps = 0
    /\ other = NoOther
    /\ NoCompiler

\* The same with the parameters every test but one uses.
Start(T) == StartWith(T, {TheParameters})

Init == Start(Templates)

\* The consumer calls read with a destination of n bytes.
ReadBegin(n) ==
    /\ status = "idle"
    /\ status' = "reading"
    /\ dst_len' = n
    /\ ev' = Event("begin", NoInstr, NoOutcome)
    /\ UNCHANGED <<process, machine, ret, emitted, delivered, failed, reported,
                   steps, outside>>

\* read returns Ok(consume_buf(dst)).
Return(c) ==
    /\ buf' = c.buf
    /\ ret' = RetOk(c)
    /\ delivered' = delivered \o c.out
    /\ status' = "idle"
    /\ UNCHANGED <<pc, stack, values, emitted, failed, reported, steps>>

\* The bytes an executed instruction writes: the display form of what an
\* Output resolved.
Written(i, o) ==
    IF i.op = "Output" /\ o.res = "Continue"
    THEN display(get_mem_value(i.mem).v) ELSE <<>>

\* An error as its consumer meets it: after the bytes delivered so far.
Report(e) == [err |-> e, at |-> Len(delivered)]

\* The loop running the template on without looking at the buffer.
buf_ignored == FALSE

\* The loop test with a strict comparison.
buf_exceeds == Len(buf) > dst_len

\* The loop test satisfied by any buffered byte.
buf_satisfies_nonempty == Len(buf) >= dst_len \/ buf # <<>>

\* if self.buf.len() >= buf.len() { break; }
buf_satisfies == Len(buf) >= dst_len

\* One iteration of the loop of InterpreterStream::read.
ReadLoop ==
    /\ status = "reading"
    /\ Len(emitted) <= MaxEmitted
    /\ Len(stack) <= MaxStack
    /\ Len(reported) <= MaxReported
    /\ steps <= MaxSteps
    /\ UNCHANGED <<process, dst_len, outside>>
    /\ IF buf_satisfies
       THEN /\ Return(consume_buf(buf, dst_len))
            /\ ev' = Event("consume", NoInstr, NoOutcome)
       ELSE LET o == execute IN
            /\ ev' = Event("exec", fetch, o)
            /\ CASE o.res = "Done" -> Return(consume_buf(buf, dst_len))
                 [] o.res = "Panic" ->
                      /\ status' = "panicked"
                      /\ ret' = RetPanic
                      /\ UNCHANGED <<machine, emitted, delivered, failed, reported,
                                     steps>>
                 [] OTHER ->
                      /\ pc' = o.pc
                      /\ buf' = o.buf
                      /\ stack' = o.stack
                      /\ values' = o.values
                      /\ emitted' = emitted \o Written(fetch, o)
                      /\ status' = IF o.res = "Continue" THEN "reading" ELSE "idle"
                      /\ ret' = CASE o.res = "Continue" -> ret
                                  [] o.res = "Interupt" -> RetErr(ErrInterupt)
                                  [] o.res = "Err" -> RetErr(o.err)
                      /\ failed' = IF o.res = "Err" /\ failed = NoError
                                   THEN o.err ELSE failed
                      /\ reported' =
                            CASE o.res = "Interupt" ->
                                   Append(reported, Report(ErrInterupt))
                              [] o.res = "Err" /\ failed = NoError ->
                                   Append(reported, Report(o.err))
                              [] OTHER -> reported
                      /\ steps' = IF o.res = "Err" THEN steps ELSE steps + 1
                      /\ UNCHANGED delivered

Next == (\E n \in 0..MaxDst : ReadBegin(n)) \/ ReadLoop

Spec == Init /\ [][Next]_vars

\* ------------------------------------------------ two streams
\* Output around an Interupt, output before a fatal error, a host function
\* and the root value: what two consumers can tell apart.
TwoTemplates ==
    {<<Output(Mem_Const(3)), Interupt, Output(Mem_Const(1))>>,
     <<Output(Mem_Const(3)), Pop(1), Output(Mem_Const(3))>>,
     <<Push(Mem_Const(1)), Call(0, 1, TRUE), Output(Mem_StackTop1), Interupt>>,
     <<Output(Mem_Parameters), Load(0, Mem_Const(3)), Output(Mem_Binding(0))>>}

InitTwo == Start(TwoTemplates) /\ overflow_checks = FALSE

\* process.run(parameters) is called again, with the same parameters, while
\* the first stream is anywhere in its run.
Process_run ==
    /\ other.status = "none"
    /\ other' = run
    /\ UNCHANGED <<process, machine, status, dst_len, ret, ev, emitted,
                   delivered, failed, reported, steps, build_vars, peeked, io_vars,
                   header_vars, forward_vars, compiler_vars>>

\* The step that comes next belongs to the other stream: the two change
\* places, each keeping what it owns.
Switch ==
    /\ other.status # "none"
    /\ other' = Current
    /\ pc' = other.pc
    /\ buf' = other.buf
    /\ stack' = other.stack
    /\ values' = other.values
    /\ status' = other.status
    /\ dst_len' = other.dst_len
    /\ ret' = other.ret
    /\ ev' = other.ev
    /\ emitted' = other.emitted
    /\ delivered' = other.delivered
    /\ failed' = other.failed
    /\ reported' = other.reported
    /\ steps' = other.steps
    /\ UNCHANGED <<process, build_vars, peeked, io_vars, header_vars,
                   forward_vars, compiler_vars>>

NextTwo ==
    \/ \E n \in 0..MaxDst : ReadBegin(n)
    \/ ReadLoop
    \/ Process_run
    \/ Switch

SpecTwo == InitTwo /\ [][NextTwo]_vars

\* ------------------------------------------------ the compiler
\* "Hello"
Hello == StrV(<<72, 101, 108, 108, 111>>)

\* The template of output_param, the empty template and output around an
\* Interupt.
CompilerTemplates ==
    {<<Output(Mem_Param(1))>>, <<>>,
     <<Output(Mem_Const(3)), Interupt, Output(Mem_Param(1))>>}

\* from_instructions_and_params: the interpreter's process and stream over
\* a template, and no executable yet.
InitCompiler ==
    /\ StartWith(CompilerTemplates, {TheParameters, 1 :> Hello})
    /\ overflow_checks = FALSE

\* Compiler::build over the template the process was built from
Build_build ==
    /\ ~executable.built
    /\ \E id \in {"a", "b"} : executable' = Compiler_build(id, instructions)
    /\ UNCHANGED <<process, machine, status, dst_len, ret, ev, emitted,
                   delivered, failed, reported, steps, build_vars, peeked, io_vars,
                   header_vars, forward_vars, other, compiled_status,
                   compiled_ret, compiled>>

\* Executable::execute(data): a CompilerStream
Executable_execute ==
    /\ executable.built
    /\ compiled_status = "none"
    /\ compiled_status' = "idle"
    /\ UNCHANGED <<process, machine, status, dst_len, ret, ev, emitted,
                   delivered, failed, reported, steps, build_vars, peeked, io_vars,
                   header_vars, forward_vars, other, executable, compiled_ret,
                   compiled>>

\* The consumer reads the CompilerStream with a destination of n bytes.
Compiled_read(n) ==
    /\ compiled_status = "idle"
    /\ compiled_ret' = CompilerStream_read(n)
    /\ compiled' = compiled \o CompilerStream_read(n).bytes
    /\ UNCHANGED <<process, machine, status, dst_len, ret, ev, emitted,
                   delivered, failed, reported, steps, build_vars, peeked, io_vars,
                   header_vars, forward_vars, other, executable, compiled_status>>

NextCompiler ==
    \/ \E n \in 0..MaxDst : ReadBegin(n)
    \/ ReadLoop
    \/ Build_build
    \/ Executable_execute
    \/ \E n \in 1..MaxDst : Compiled_read(n)

SpecCompiler == InitCompiler /\ [][NextCompiler]_vars

\* ------------------------------------------------ reading to the end
\* Jumps and conditional jumps forwards and backwards, pops that succeed or
\* fail, output around two Interupts, and jumps back that write nothing.
LiveTemplates ==
    JumpTemplates \cup CondTemplates \cup PopTemplates
        \cup {<<Output(Mem_Const(3)), Interupt, Output(Mem_Const(1)), Interupt>>,
              <<Jump(0)>>, <<Pop(0), Jump(0)>>}

InitLive == Start(LiveTemplates) /\ overflow_checks = FALSE

\* A consumer that only reads with a non-empty destination.
NextLive == (\E n \in 1..MaxDst : ReadBegin(n)) \/ ReadLoop

\* The consumer keeps calling read, and a read that was called runs on.
SpecLive == InitLive /\ [][NextLive]_vars /\ WF_vars(NextLive)

\* ------------------------------------------------ peeking at the stack
MaxPeek == 3

\* Pushes with an Interupt after each, so that reads stop at every stack
\* height.
PeekTemplates ==
    {<<Push(Mem_Const(3)), Interupt, Push(Mem_Const(1)), Interupt,
       Push(Mem_Const(2)), Interupt, Pop(c), Interupt>> : c \in 0..3}

InitPeek == Start(PeekTemplates)

\* The consumer calls peek_stack(n) between two reads.
PeekStack(n) ==
    /\ status = "idle"
    /\ peeked' = peek_stack(n)
    /\ UNCHANGED <<process, machine, status, dst_len, ret, ev, emitted,
                   delivered, failed, reported, steps, other, build_vars, io_vars,
                   header_vars, forward_vars, compiler_vars>>

NextPeek ==
    \/ \E n \in 0..MaxDst : ReadBegin(n)
    \/ ReadLoop
    \/ \E n \in 0..MaxPeek : PeekStack(n)

SpecPeek == InitPeek /\ [][NextPeek]_vars

\* ------------------------------------------------ the bytecode header
MaxHeaders == 2

\* What a file handed to deserialize may hold: nothing, cut headers, the
\* magic, other words, two words, a word and a stray byte.  The words are
\* below 2^31, where the integers of TLC end.
Files ==
    {<<>>, <<191>>, <<191, 251, 28>>, <<191, 251, 28, 3>>, <<255, 240, 28, 3>>,
     <<0, 0, 0, 0>>, <<1, 0, 0, 0, 0, 1, 0, 0>>, <<255, 255, 255, 127>>,
     <<0, 0, 1, 0, 7>>, <<3, 28, 251, 63>>}

\* No stream is running beside the bytecode helpers.
NoStream ==
    /\ instructions = <<>>
    /\ constants = TheConstants
    /\ calls_template = TheCallsTemplate
    /\ host_calls = TheHostCalls
    /\ build_result = BuildOk(TheCalls)
    /\ calls = TheCalls
    /\ parameters = TheParameters
    /\ root = TheRoot
    /\ peeked = NoPeek
    /\ overflow_checks = FALSE
    /\ usize_bits = 64
    /\ wild_write = "crash"
    /\ pc = 0
    /\ buf = <<>>
    /\ stack = <<>>
    /\ values = <<>>
    /\ status = "idle"
    /\ dst_len = 0
    /\ ret = NoRet
    /\ ev = Event("none", NoInstr, NoOutcome)
    /\ emitted = <<>>
    /\ delivered = <<>>
    /\ failed = NoError
    /\ reported = <<>>
    /\ steps = 0
    /\ other = NoOther
    /\ NoCompiler

stream_vars ==
    <<process, machine, status, dst_len, ret, ev, emitted, delivered, failed,
      reported, steps, other, build_vars, peeked, compiler_vars>>

\* A new Header, an empty Vec to write to and a Cursor over some file.
InitHeader ==
    /\ NoStream
    /\ header = Header_new
    /\ input \in Files
    /\ position = 0
    /\ output = <<>>
    /\ ser_result = NoSer
    /\ de_result = NoDe
    /\ scratch = <<>>
    /\ len_left = 0
    /\ short_reads = FALSE
    /\ fwd_status = "idle"
    /\ fwd_call = NoForward

\* header.serialize(&mut output)
Serialize ==
    /\ Len(output) < size_of_Header * MaxHeaders
    /\ output' = output \o serialize(header).bytes
    /\ ser_result' = serialize(header).result
    /\ UNCHANGED <<stream_vars, forward_vars, input, position, header, de_result>>

\* Header::deserialize(&mut cursor)
Deserialize ==
    /\ de_result' = deserialize(input, position).result
    /\ position' = deserialize(input, position).position
    /\ UNCHANGED <<stream_vars, forward_vars, input, output, header, ser_result>>

\* Cursor::new(&output[..k]): what was written, or a cut copy of it, is
\* read back.
Reopen(k) ==
    /\ output # <<>>
    /\ input' = SubSeq(output, 1, k)
    /\ position' = 0
    /\ de_result' = NoDe
    /\ UNCHANGED <<stream_vars, forward_vars, output, header, ser_result>>

\* The Header that deserialize returned is the one to write next, into a
\* new Vec.
Adopt ==
    /\ de_result.kind = "ok"
    /\ header' = de_result.header
    /\ output' = <<>>
    /\ ser_result' = NoSer
    /\ UNCHANGED <<stream_vars, forward_vars, input, position, de_result>>

NextHeader ==
    \/ Serialize
    \/ Deserialize
    \/ \E k \in 0..(size_of_Header * MaxHeaders) : k <= Len(output) /\ Reopen(k)
    \/ Adopt

SpecHeader == InitHeader /\ [][NextHeader]_vars

\* ------------------------------------------------ forwarding bytes
MaxBuf == 2
MaxLen == 3
MaxOut == 4
MaxCopies == 5

\* The bytes of the input
Data == <<10, 11, 12, 13, 14>>

\* A reader over Data, an empty Vec and a zeroed buffer of up to MaxBuf
\* bytes.
InitForward ==
    /\ NoStream
    /\ header = Header_new
    /\ ser_result = NoSer
    /\ de_result = NoDe
    /\ input = Data
    /\ position = 0
    /\ output = <<>>
    /\ scratch \in {[k \in 1..n |-> 0] : n \in 0..MaxBuf}
    /\ len_left = 0
    /\ short_reads \in BOOLEAN
    /\ fwd_status = "idle"
    /\ fwd_call = NoForward

\* The history of the call after one more cp or cp_len whose read
\* returned got.
Copied(got) ==
    [fwd_call EXCEPT !.copies = @ + 1, !.got = @ + got]

\* forward_len(len, buf, input, output) is called.
forward_len_begin(n) ==
    /\ fwd_status = "idle"
    /\ Len(output) + n <= MaxOut
    /\ fwd_status' = "running"
    /\ len_left' = n
    /\ fwd_call' = [from |-> position, len |-> n, out |-> output,
                    copies |-> 0, got |-> 0]
    /\ UNCHANGED <<stream_vars, header_vars, input, position, output, scratch,
                   short_reads>>

\* seek_and_forward_len(loc, len, buf, input, output) is called: the seek,
\* then forward_len.
seek_and_forward_len_begin(loc, n) ==
    /\ fwd_status = "idle"
    /\ Len(output) + n <= MaxOut
    /\ position' = loc
    /\ fwd_status' = "running"
    /\ len_left' = n
    /\ fwd_call' = [from |-> loc, len |-> n, out |-> output,
                    copies |-> 0, got |-> 0]
    /\ UNCHANGED <<stream_vars, header_vars, input, output, scratch, short_reads>>

\* One iteration of the loop of forward_len.
forward_len_loop ==
    /\ fwd_status = "running"
    /\ fwd_call.copies <= MaxCopies
    /\ LET buf_len == Len(scratch)
           avail == IF position >= Len(input) THEN 0 ELSE Len(input) - position
       IN  IF len_left >= buf_len
           THEN \E got \in ReadCounts(buf_len, avail) :
                   /\ scratch' = cp(scratch, got).buf
                   /\ position' = cp(scratch, got).position
                   /\ output' = output \o cp(scratch, got).written
                   /\ len_left' = len_left - buf_len
                   /\ fwd_call' = Copied(got)
                   /\ UNCHANGED fwd_status
           ELSE IF len_left = 0
                THEN /\ fwd_status' = "idle"
                     /\ UNCHANGED <<scratch, position, output, len_left, fwd_call>>
                ELSE \E got \in ReadCounts(len_left, avail) :
                        /\ scratch' = cp_len(len_left, scratch, got).buf
                        /\ position' = cp_len(len_left, scratch, got).position
                        /\ output' = output \o cp_len(len_left, scratch, got).written
                        /\ fwd_call' = Copied(got)
                        /\ fwd_status' = "idle"
                        /\ UNCHANGED len_left
    /\ UNCHANGED <<stream_vars, header_vars, input, short_reads>>

NextForward ==
    \/ \E n \in 0..MaxLen : forward_len_begin(n)
    \/ \E loc \in 0..Len(Data), n \in 0..MaxLen : seek_and_forward_len_begin(loc, n)
    \/ forward_len_loop

SpecForward == InitForward /\ [][NextForward]_vars

\* ------------------------------------------------ building a processor
\* The names of the call tables explored and the host functions behind them.
Names == {"a", "b", "c"}
MaxCall == 1
Tables(R) == UNION {[S -> R] : S \in SUBSET Names}

\* A template and a host map before build_processor is called.
InitBuild ==
    /\ instructions = <<Call(0, 0, TRUE), Output(Mem_StackTop1)>>
    /\ constants = TheConstants
    /\ calls_template \in Tables(0..MaxCall)
    /\ host_calls \in Tables({"first", "fail"})
    /\ build_result = NoBuild
    /\ calls = <<>>
    /\ parameters = TheParameters
    /\ root = TheRoot
    /\ peeked = NoPeek
    /\ NoBytecode
    /\ overflow_checks = FALSE
    /\ usize_bits = 64
    /\ wild_write = "crash"
    /\ pc = 0
    /\ buf = <<>>
    /\ stack = <<>>
    /\ values = <<>>
    /\ status = "idle"
    /\ dst_len = 0
    /\ ret = NoRet
    /\ ev = Event("none", NoInstr, NoOutcome)
    /\ emitted = <<>>
    /\ delivered = <<>>
    /\ failed = NoError
    /\ reported = <<>>
    /\ steps = 0
    /\ other = NoOther
    /\ NoCompiler

\* Interpreter::build_processor
build_processor ==
    /\ build_result = NoBuild
    /\ \E order \in Orders(DOMAIN calls_template) :
          LET built == build(order, <<>>) IN
          /\ build_result' = built
          /\ calls' = IF built.kind = "ok" THEN built.map ELSE calls
    /\ UNCHANGED <<instructions, constants, parameters, root, overflow_checks,
                   usize_bits, wild_write, machine, status, dst_len, ret, ev,
                   emitted, delivered, failed, reported, steps, other, calls_template,
                   host_calls, peeked, io_vars, header_vars, forward_vars,
                   compiler_vars>>

NextBuild == build_processor

SpecBuild == InitBuild /\ [][NextBuild]_vars

\* ------------------------------------------------------------ the claims
\* The loop of read is about to execute the instruction at pc.
Executing == status = "reading" /\ Len(buf) < dst_len /\ fetch.op # "None"

\* C1: the bytes delivered by the reads so far, followed by the bytes still
\* in the internal buffer, are exactly the bytes the executed Output
\* instructions wrote, in execution order: nothing is lost, duplicated or
\* reordered, whatever destination sizes the reads used.
C1_DeliveredInOrder == delivered \o buf = emitted

\* Several reads of different sizes have delivered part of the output of two
\* Output instructions, and the rest is still buffered.
C1_Witness ==
    /\ status = "idle"
    /\ ret.kind = "ok" /\ ret.n = 1
    /\ Len(delivered) = 3
    /\ Len(buf) = 1
    /\ emitted = <<97, 98, 97, 98>>

\* C2: executing Interupt ends the read with the Interupt error, pc one past
\* the instruction and buffer, stack and bindings as they were; a read ends
\* with the Interupt error only by executing an Interupt instruction; and
\* nothing moves the machine between two reads, so the next read resumes at
\* the following instruction.
C2_InteruptResumes ==
    [][ /\ (Executing /\ fetch.op = "Interupt") =>
              /\ status' = "idle"
              /\ ret' = RetErr(ErrInterupt)
              /\ pc' = pc + 1
              /\ <<buf, stack, values, delivered, emitted>>' =
                    <<buf, stack, values, delivered, emitted>>
        /\ (status = "reading" /\ status' = "idle" /\ ret'.err = ErrInterupt) =>
              (Executing /\ fetch.op = "Interupt")
        /\ status = "idle" => machine' = machine ]_vars

\* Output c; Interupt; Output c has been read to its end by a consumer that
\* carried on after the Interupt error: both outputs were delivered.
C2_Witness ==
    /\ instructions = <<Output(Mem_Const(3)), Interupt, Output(Mem_Const(3))>>
    /\ status = "idle" /\ ret.kind = "ok" /\ ret.n = 0
    /\ pc = 3
    /\ delivered = <<97, 98, 97, 98>>

\* The instructions that resolve a Mem.
ReadsMem(i) == i.op \in {"Output", "Push", "Load", "CondJump"}

\* The read in progress ends here with error e, the machine untouched.
FailsWith(e) ==
    /\ status' = "idle"
    /\ ret' = RetErr(e)
    /\ machine' = machine

\* C3: an instruction that reads StackTop1 with an empty stack, or StackTop2
\* with fewer than two items, ends the read with StackUnderflow.
C3_StackTopUnderflow ==
    [][ ( /\ Executing
          /\ ReadsMem(fetch)
          /\ \/ fetch.mem = Mem_StackTop1 /\ Len(stack) < 1
             \/ fetch.mem = Mem_StackTop2 /\ Len(stack) < 2 )
        => FailsWith(StackUnderflow) ]_vars

\* C4: a Call of a resolved function with argc above the stack length ends
\* the read with StackUnderflow.
C4_CallUnderflow ==
    [][ ( /\ Executing
          /\ fetch.op = "Call"
          /\ fetch.loc \in DOMAIN calls
          /\ fetch.n > Len(stack) )
        => FailsWith(StackUnderflow) ]_vars

\* C5: a Call whose host function returns an error ends the read with
\* CallError, whether or not the result was to be pushed.
C5_CallErrorPropagates ==
    [][ ( /\ Executing
          /\ fetch.op = "Call"
          /\ fetch.loc \in DOMAIN calls
          /\ fetch.n <= Len(stack)
          /\ ~invoke(calls[fetch.loc],
                     SubSeq(stack, Len(stack) - fetch.n + 1, Len(stack))).ok )
        => (status' = "idle" /\ ret' = RetErr(CallError)) ]_vars

\* C6: a Call that succeeds hands the host function the last argc stack
\* items in stack order and removes nothing: afterwards the stack is the
\* stack before the call, with the returned value appended when the result
\* is pushed.
C6_CallKeepsStack ==
    [][ ( /\ Executing
          /\ fetch.op = "Call"
          /\ ev'.res = "Continue" )
        => /\ ev'.inv.called
           /\ ev'.inv.f = calls[fetch.loc]
           /\ Len(ev'.inv.args) = fetch.n
           /\ \A k \in 1..fetch.n :
                 ev'.inv.args[k] = stack[Len(stack) - fetch.n + k]
           /\ stack' = IF fetch.returns
                       THEN stack \o <<invoke(calls[fetch.loc], ev'.inv.args).v>>
                       ELSE stack
           /\ pc' = pc + 1 ]_vars

\* A call over two of three stack items pushed its result: four items.
C6_Witness ==
    /\ ev.kind = "exec" /\ ev.instr = Call(0, 2, TRUE) /\ ev.res = "Continue"
    /\ ev.inv.args = <<IntV(1), IntV(2)>>
    /\ stack = <<IntV(1), IntV(2), IntV(1)>>

\* C7: a reference to a constant that is not in the constant table, to a
\* parameter that is not among the parameters, or to a call that is not in
\* the resolved call table ends the read with ConstantMissing,
\* ParameterMissing or CallMissing, carrying the missing id, and the machine
\* is left as it was.
C7_MissingReferences ==
    [][ /\ ( /\ Executing /\ ReadsMem(fetch)
             /\ fetch.mem.kind = "Const" /\ fetch.mem.i \notin DOMAIN constants )
           => FailsWith(ConstantMissing(fetch.mem.i))
        /\ ( /\ Executing /\ ReadsMem(fetch)
             /\ fetch.mem.kind = "Param" /\ fetch.mem.i \notin DOMAIN parameters )
           => FailsWith(ParameterMissing(fetch.mem.i))
        /\ ( /\ Executing /\ fetch.op = "Call" /\ fetch.loc \notin DOMAIN calls )
           => FailsWith(CallMissing(fetch.loc)) ]_vars

\* A CondJump over a missing constant, on an empty stack, has ended a read
\* with ConstantMissing.
C7_Witness ==
    /\ status = "idle"
    /\ ev.kind = "exec" /\ ev.instr.op = "CondJump"
    /\ stack = <<>>
    /\ ret = RetErr(ConstantMissing(9))
    /\ description(ret.err) = "constant is missing"

\* C8 as stated: once a read has failed with an error other than Interupt,
\* every later read returns that same error or 0 bytes.
C8_StickyError ==
    (failed # NoError /\ status = "idle") =>
        (ret = RetErr(failed) \/ (ret.kind = "ok" /\ ret.n = 0))

\* C8 as amended: once a read has failed with an error other than Interupt,
\* the machine never gets past the failing instruction (pc, stack, bindings
\* and the bytes written by Output change no more), and every later read
\* either fails with that same error or, when the buffer already holds
\* len(dst) bytes, returns len(dst) bytes buffered before the failure; no
\* other error kind is ever reported.
C8_FailedStreamOnlyDrains ==
    [][ failed # NoError =>
          /\ <<pc, stack, values, emitted, failed>>' =
                <<pc, stack, values, emitted, failed>>
          /\ (status = "reading" /\ status' = "idle") =>
                \/ ret' = RetErr(failed) /\ buf' = buf
                \/ /\ Len(buf) >= dst_len
                   /\ ret' = RetOk(consume_buf(buf, dst_len))
                   /\ ret'.n = dst_len ]_vars

\* After a failed read, a later read has returned bytes of the buffer.
C8_Witness ==
    /\ failed = StackUnderflow
    /\ status = "idle"
    /\ ret.kind = "ok" /\ ret.n = 2 /\ ret.bytes = <<97, 98>>

\* The targets of the jumps of the template.
JumpTargets ==
    {instructions[k].loc : k \in {j \in 1..Len(instructions) :
                                     instructions[j].op \in {"Jump", "CondJump"}}}

\* C9 as stated: pc is a valid instruction index or len(instructions).
C9_PcWithinTemplate == pc <= Len(instructions)

\* C9 as amended: pc is a valid instruction index, or len(instructions), or
\* the target of a Jump or CondJump of the template; and any pc at or past
\* len(instructions) is terminal: nothing changes pc, stack or bindings
\* again.
C9_PcValidOrTerminal ==
    /\ [](pc <= Len(instructions) \/ pc \in JumpTargets)
    /\ [][pc >= Len(instructions) =>
            <<pc, stack, values, emitted>>' = <<pc, stack, values, emitted>>]_vars

\* A jump past the end was taken and the stream then read to its end.
C9_Witness ==
    /\ pc > Len(instructions)
    /\ status = "idle"
    /\ ret.kind = "ok" /\ ret.n = 0
    /\ delivered = <<49>>

\* The relation a condition names on the value type: equality of values,
\* and the order of two Ints, two Strs or two Nulls (values of different
\* variants are unequal and unordered).
Holds(test, a, b) ==
    LET lt == \/ a.t = "Int" /\ b.t = "Int" /\ a.i < b.i
              \/ a.t = "Str" /\ b.t = "Str" /\ cmp_bytes(a.s, b.s) = "Less"
        gt == \/ a.t = "Int" /\ b.t = "Int" /\ a.i > b.i
              \/ a.t = "Str" /\ b.t = "Str" /\ cmp_bytes(a.s, b.s) = "Greater"
    IN  CASE test = "Eq" -> a = b
          [] test = "Ne" -> a # b
          [] test = "Gt" -> gt
          [] test = "Lt" -> lt
          [] test = "Gte" -> gt \/ a = b
          [] test = "Lte" -> lt \/ a = b

\* C10: a CondJump whose Mem resolves, on a non-empty stack, sets pc to its
\* target exactly when the condition holds of (stack top, value of the
\* Mem), and otherwise advances pc by one; stack, bindings and buffer are
\* unchanged either way.
C10_CondJump ==
    [][ ( /\ Executing
          /\ fetch.op = "CondJump"
          /\ get_mem_value(fetch.mem).res = "Ok"
          /\ stack # <<>> )
        => /\ pc' = IF Holds(fetch.cond, stack[Len(stack)],
                             get_mem_value(fetch.mem).v)
                    THEN fetch.loc ELSE pc + 1
           /\ status' = "reading"
           /\ <<stack, values, buf>>' = <<stack, values, buf>> ]_vars

\* A Lt jump was taken with 1 on the stack against the constant 2.
C10_Witness ==
    /\ ev.kind = "exec" /\ ev.res = "Continue"
    /\ ev.instr = CondJump(3, Mem_Const(2), "Lt")
    /\ stack = <<IntV(1)>>
    /\ pc = 3

\* C11 as stated: when the partial ordering of (stack top, value of the
\* Mem) yields None, CondJump does not jump, whatever the condition.
C11_NoJumpWhenUnordered ==
    [][ ( /\ Executing
          /\ fetch.op = "CondJump"
          /\ get_mem_value(fetch.mem).res = "Ok"
          /\ stack # <<>>
          /\ partial_cmp(stack[Len(stack)], get_mem_value(fetch.mem).v) = "None" )
        => pc' = pc + 1 ]_vars

\* C11 as amended: when the partial ordering yields None, CondJump does not
\* jump for Gt, Lt, Gte and Lte; Eq and Ne are decided by the equality of
\* the value type and not by its ordering, so Ne jumps whenever the two
\* values are unequal (an Int against a Str) and Eq only when they are equal.
C11_UnorderedJumpsOnlyByEquality ==
    [][ ( /\ Executing
          /\ fetch.op = "CondJump"
          /\ get_mem_value(fetch.mem).res = "Ok"
          /\ stack # <<>>
          /\ partial_cmp(stack[Len(stack)], get_mem_value(fetch.mem).v) = "None" )
        => LET top == stack[Len(stack)]
               value == get_mem_value(fetch.mem).v
               jumps == \/ fetch.cond = "Ne" /\ top # value
                        \/ fetch.cond = "Eq" /\ top = value
           IN  /\ pc' = IF jumps THEN fetch.loc ELSE pc + 1
               /\ <<stack, values, buf>>' = <<stack, values, buf>> ]_vars

\* With the Int 1 on the stack against the Str constant, Ne has jumped.
C11_Witness ==
    /\ ev.kind = "exec" /\ ev.res = "Continue"
    /\ ev.instr = CondJump(3, Mem_Const(3), "Ne")
    /\ stack = <<IntV(1)>>
    /\ ev.at = 1 /\ pc = 3

\* C12: Jump(k) changes pc to k and nothing else, and the read goes on; pc
\* changes only by executing an instruction, so the next instruction
\* executed is the one at k (or the machine is Done), and the instructions
\* between the jump and k are not executed and write nothing.
C12_Jump ==
    [][ /\ (Executing /\ fetch.op = "Jump") =>
              /\ pc' = fetch.loc
              /\ status' = "reading"
              /\ <<buf, stack, values, emitted, delivered, ret, failed>>' =
                    <<buf, stack, values, emitted, delivered, ret, failed>>
        /\ ~Executing => pc' = pc ]_vars

\* Output 1; Jump 3; Output 2; Output ab was read to its end: the Output at
\* index 2 wrote nothing.
C12_Witness ==
    /\ instructions = <<Output(Mem_Const(1)), Jump(3), Output(Mem_Const(2)),
                        Output(Mem_Const(3))>>
    /\ status = "idle" /\ ret.kind = "ok" /\ ret.n = 0
    /\ pc = 4
    /\ delivered = <<49, 97, 98>>

\* C13: a read into a destination of length zero returns 0 at once and
\* executes nothing: pc, stack, bindings and buffer are unchanged, whatever
\* state the stream is in.
C13_ZeroLengthRead ==
    [][ (status = "reading" /\ dst_len = 0) =>
            /\ status' = "idle"
            /\ ret'.kind = "ok" /\ ret'.n = 0 /\ ret'.bytes = <<>>
            /\ machine' = machine
            /\ emitted' = emitted ]_vars

\* A zero-length read has returned 0 in the middle of a template, with
\* bytes waiting in the buffer.
C13_Witness ==
    /\ ev.kind = "consume" /\ dst_len = 0 /\ status = "idle"
    /\ ret.kind = "ok" /\ ret.n = 0
    /\ buf # <<>> /\ stack # <<>>
    /\ pc > 0 /\ pc < Len(instructions)

\* A step in which read returns Ok.
ReturnsOk == status = "reading" /\ status' = "idle" /\ ret'.kind = "ok"

\* C14: a successful read returns min(len(buf), len(dst)), the bytes
\* written are the first that many of buf in order, and buf keeps the rest
\* in order.
C14_ConsumeFront ==
    [][ ReturnsOk =>
            /\ ret'.n = IF Len(buf) <= dst_len THEN Len(buf) ELSE dst_len
            /\ Len(ret'.bytes) = ret'.n
            /\ \A i \in 1..ret'.n : ret'.bytes[i] = buf[i]
            /\ Len(buf') = Len(buf) - ret'.n
            /\ \A i \in 1..Len(buf') : buf'[i] = buf[ret'.n + i] ]_vars

\* Of the buffered "abab" a read of three took "aba" and left "b".
C14_Witness ==
    /\ status = "idle" /\ ret.kind = "ok" /\ ret.n = 3
    /\ ret.bytes = <<97, 98, 97>>
    /\ buf = <<98>>

\* The machine is Done and has nothing buffered.
AtEnd == pc >= Len(instructions) /\ buf = <<>>

\* C15: a successful read into a non-empty destination is short only when
\* no instruction is left at pc, and returns 0 only when the buffer is
\* empty as well; from then on pc, stack, bindings and buffer never change
\* and every read returns 0.
C15_ShortReadOnlyAtEnd ==
    [][ /\ (ReturnsOk /\ dst_len > 0 /\ ret'.n < dst_len) =>
              /\ pc >= Len(instructions) /\ pc' = pc
              /\ ret'.n = Len(buf)
              /\ ret'.n = 0 => (buf = <<>> /\ AtEnd')
        /\ AtEnd =>
              /\ machine' = machine
              /\ status' \in {"idle", "reading"}
              /\ (status = "reading" /\ status' = "idle") =>
                     (ret'.kind = "ok" /\ ret'.n = 0) ]_vars

\* A short read of one byte into three, then a read returning 0, at the end
\* of a template that has written four bytes.
C15_Witness ==
    /\ AtEnd /\ status = "idle" /\ dst_len = 3
    /\ ret.kind = "ok" /\ ret.n = 0
    /\ Len(delivered) = 4 /\ stack # <<>>

\* C16: Pop of more items than the stack holds, so any Pop(n >= 1) on an
\* empty stack, ends the read with the StackUnderflow error, described as
\* "stack underflow"; the stream does not panic.
C16_PopUnderflow ==
    [][ (Executing /\ fetch.op = "Pop" /\ fetch.n > Len(stack)) =>
            /\ status' = "idle"
            /\ ret'.kind = "err" /\ ret'.err = StackUnderflow
            /\ description(ret'.err) = "stack underflow"
            /\ pc' = pc /\ buf' = buf ]_vars

\* Instructions Pop(1): the first read has failed with StackUnderflow.
C16_Witness ==
    /\ instructions = <<Pop(1)>>
    /\ status = "idle" /\ ret.kind = "err" /\ ret.err = StackUnderflow
    /\ delivered = <<>> /\ failed = StackUnderflow

\* A Load whose source resolves and whose binding index is below MAX_VALUES
\* is being executed.
Loading ==
    /\ Executing
    /\ fetch.op = "Load"
    /\ get_mem_value(fetch.mem).res = "Ok"
    /\ index_below(fetch.n, MAX_VALUES)

\* The binding indexes a template names.
BindingsOf(t) ==
    {t[k].n : k \in {j \in 1..Len(t) : t[j].op = "Load"}}
        \cup {t[k].mem.i : k \in {j \in 1..Len(t) : t[j].mem.kind = "Binding"}}

\* C17: a Load into b stores what its source resolved to when it ran; no
\* step but a Load into b changes slot b; and Output(Binding(b)) appends
\* the display form of slot b.  So Output(Binding(b)) after Load(b, loc)
\* writes display(value_at(loc) as it was at the Load), for every kind of
\* source, whatever runs in between that does not Load into b.
C17_LoadThenOutput ==
    [][ /\ Loading =>
              /\ status' = "reading"
              /\ index_below(fetch.n, Len(values'))
              /\ values'[fetch.n + 1] = get_mem_value(fetch.mem).v
        /\ \A b \in BindingsOf(instructions) :
              (index_below(b, Len(values)) /\ ~(Loading /\ fetch.n = b)) =>
                  /\ index_below(b, Len(values'))
                  /\ values'[b + 1] = values[b + 1]
        /\ ( /\ Executing /\ fetch.op = "Output"
             /\ fetch.mem.kind = "Binding"
             /\ index_below(fetch.mem.i, Len(values)) ) =>
              /\ buf' = buf \o display(values[fetch.mem.i + 1])
              /\ emitted' = emitted \o display(values[fetch.mem.i + 1]) ]_vars

\* Push 1; Push 2; Load(0, "ab"); Load(1, StackTop2); Load(0, 2);
\* Output(Binding(1)) was read to its end and wrote "1".
C17_Witness ==
    /\ instructions = <<Push(Mem_Const(1)), Push(Mem_Const(2)),
                        Load(0, Mem_Const(3)), Load(1, Mem_StackTop2),
                        Load(0, Mem_Const(2)), Output(Mem_Binding(1))>>
    /\ status = "idle" /\ pc = 6
    /\ values = <<IntV(2), IntV(1)>>
    /\ delivered = <<49>>

\* C18: a Load at index N below MAX_VALUES into a binding vector of length
\* L makes the length N+1 when L <= N and leaves it L otherwise, stores the
\* value at slot N, fills the slots L..N-1 with the default and leaves every
\* other slot below L as it was.
C18_LoadGrowth ==
    [][ Loading =>
            LET N == fetch.n
                L == Len(values)
                v == get_mem_value(fetch.mem).v
            IN  /\ Len(values') = IF L <= N THEN N + 1 ELSE L
                /\ values'[N + 1] = v
                /\ \A i \in 0..(L - 1) : i # N => values'[i + 1] = values[i + 1]
                /\ \A i \in L..(N - 1) : values'[i + 1] = default
                /\ <<stack, buf>>' = <<stack, buf>> ]_vars

\* A Load at index 2 into a vector of length 1 left slot 0, made a default
\* slot 1 and stored at slot 2; the Load at index 0 that followed has
\* overwritten slot 0 alone.
C18_Witness ==
    /\ instructions = <<Load(0, Mem_Const(3)), Load(2, Mem_Const(1)),
                        Load(0, Mem_Const(2)), Output(Mem_Binding(2))>>
    /\ ev.kind = "exec" /\ ev.res = "Continue"
    /\ ev.instr = Load(0, Mem_Const(2)) /\ ev.at = 2
    /\ values = <<IntV(2), default, IntV(1)>>

\* C19: the binding vector never has more than MAX_VALUES slots; a Load at
\* index MAX_VALUES - 1 succeeds; a Load at any index from MAX_VALUES on
\* stops the stream and leaves the binding vector as it was.
C19_MaxValues ==
    /\ [](Len(values) <= MAX_VALUES)
    /\ [][ ( /\ Executing
             /\ fetch.op = "Load"
             /\ get_mem_value(fetch.mem).res = "Ok" ) =>
              /\ fetch.n = MAX_VALUES - 1 =>
                    /\ status' = "reading"
                    /\ Len(values') = MAX_VALUES
                    /\ values'[MAX_VALUES] = get_mem_value(fetch.mem).v
              /\ ~index_below(fetch.n, MAX_VALUES) =>
                    /\ status' = "panicked"
                    /\ values' = values ]_vars

\* C20: Push appends one value that a Pop(1) removes again, and neither
\* touches the bindings or the buffer: a Pop(1) executed right after a
\* Push(loc) that resolved leaves stack, bindings and buffer as they were
\* before the Push, with pc two further.
C20_PushPop ==
    [][ /\ ( /\ Executing /\ fetch.op = "Push"
             /\ get_mem_value(fetch.mem).res = "Ok" ) =>
              /\ status' = "reading"
              /\ pc' = pc + 1
              /\ Len(stack') = Len(stack) + 1
              /\ \A i \in 1..Len(stack) : stack'[i] = stack[i]
              /\ <<values, buf, emitted>>' = <<values, buf, emitted>>
        /\ ( /\ Executing /\ fetch = Pop(1)
             /\ ev.kind = "exec" /\ ev.instr.op = "Push"
             /\ ev.res = "Continue" ) =>
              /\ status' = "reading"
              /\ pc' = ev.at + 2
              /\ Len(stack') = Len(stack) - 1
              /\ \A i \in 1..Len(stack') : stack'[i] = stack[i]
              /\ <<values, buf, emitted>>' = <<values, buf, emitted>> ]_vars

\* Push 1; Push 2; Push(StackTop2); Pop(1) has run: the stack is the one
\* of before the third Push.
C20_Witness ==
    /\ instructions = <<Push(Mem_Const(1)), Push(Mem_Const(2)),
                        Push(Mem_StackTop2), Pop(1), Output(Mem_StackTop1)>>
    /\ ev.kind = "exec" /\ ev.instr = Pop(1) /\ ev.res = "Continue"
    /\ pc = 4
    /\ stack = <<IntV(1), IntV(2)>>
    /\ values = <<>> /\ buf = <<>>

\* C21: build_processor succeeds exactly when every name of the template's
\* call table is a key of the host map; a failure carries a name of the
\* table that the host map lacks; names only the host map has play no part;
\* and on success every Call id of the table, and no other, resolves to the
\* host function registered under a name the table gives that id.
C21_BuildProcessor ==
    build_result.kind # "none" =>
        /\ build_result.kind = "ok" <=>
               DOMAIN calls_template \subseteq DOMAIN host_calls
        /\ build_result.kind = "err" =>
               build_result.required \in DOMAIN calls_template \ DOMAIN host_calls
        /\ build_result.kind = "ok" =>
               /\ DOMAIN calls = {calls_template[k] : k \in DOMAIN calls_template}
               /\ \A id \in DOMAIN calls :
                     \E k \in DOMAIN calls_template :
                         calls_template[k] = id /\ calls[id] = host_calls[k]

\* A table of two names built against a host map of three, and a table
\* whose name "b" the host map lacks.
C21_Witness ==
    /\ calls_template = ("a" :> 1) @@ ("c" :> 0)
    /\ host_calls = ("a" :> "fail") @@ ("b" :> "first") @@ ("c" :> "first")
    /\ build_result.kind = "ok"
    /\ calls = (0 :> "first") @@ (1 :> "fail")

\* C24: a template without instructions gives an empty stream and no error:
\* every read, of any destination length, returns 0, and pc, stack,
\* bindings and buffer stay as Process::run made them.
C24_EmptyTemplate ==
    instructions = <<>> =>
        /\ pc = 0 /\ buf = <<>> /\ stack = <<>> /\ values = <<>>
        /\ status \in {"idle", "reading"}
        /\ ret.kind \in {"none", "ok"} /\ ret.n = 0
        /\ delivered = <<>> /\ failed = NoError

\* The empty template was read with a destination of three bytes.
C24_Witness ==
    /\ instructions = <<>>
    /\ status = "idle" /\ dst_len = 3
    /\ ret.kind = "ok" /\ ret.n = 0
    /\ ev.kind = "exec" /\ ev.res = "Done"

C26_StackTopPeeks ==
    [][ ( /\ Executing
          /\ ReadsMem(fetch)
          /\ \/ fetch.mem = Mem_StackTop1 /\ Len(stack) >= 1
             \/ fetch.mem = Mem_StackTop2 /\ Len(stack) >= 2 ) =>
        LET top == stack[Len(stack)]
            v == IF fetch.mem = Mem_StackTop1 THEN top
                 ELSE stack[Len(stack) - 1]
        IN  /\ status' = "reading"
            /\ Len(stack') >= Len(stack)
            /\ \A i \in 1..Len(stack) : stack'[i] = stack[i]
            /\ fetch.op = "Output" =>
                  buf' = buf \o display(v) /\ Len(stack') = Len(stack)
            /\ fetch.op = "Push" =>
                  Len(stack') = Len(stack) + 1 /\ stack'[Len(stack')] = v
            /\ fetch.op = "Load" =>
                  values'[fetch.n + 1] = v /\ Len(stack') = Len(stack)
            /\ fetch.op = "CondJump" =>
                  /\ pc' = IF Holds(fetch.cond, top, v) THEN fetch.loc ELSE pc + 1
                  /\ Len(stack') = Len(stack) ]_vars

\* Push 1; Push 2; Push StackTop1; Push StackTop2 has run.
C26_Witness ==
    /\ instructions = <<Push(Mem_Const(1)), Push(Mem_Const(2)),
                        Push(Mem_StackTop1), Push(Mem_StackTop2)>>
    /\ pc = 4
    /\ stack = <<IntV(1), IntV(2), IntV(2), IntV(2)>>

\* C27: peek_stack(n) on a stack of at least n items returns its last n
\* items, the lowest first (none for n = 0); on a shorter stack it returns
\* None; it changes nothing of the stream.
C27_PeekStack ==
    [][ peeked' # peeked =>
          /\ Len(stack) >= peeked'.n =>
                /\ peeked'.some
                /\ Len(peeked'.items) = peeked'.n
                /\ \A i \in 1..peeked'.n :
                      peeked'.items[i] = stack[Len(stack) - peeked'.n + i]
          /\ Len(stack) < peeked'.n => ~peeked'.some
          /\ <<process, machine, status, dst_len, ret, emitted, delivered,
               failed>>' =
             <<process, machine, status, dst_len, ret, emitted, delivered,
               failed>> ]_vars

\* Of the stack "ab", 1, 2, at rest after an Interupt, the top two were
\* peeked.
C27_Witness ==
    /\ stack = <<StrV(<<97, 98>>), IntV(1), IntV(2)>>
    /\ status = "idle" /\ ret.kind = "err" /\ ret.err = ErrInterupt
    /\ peeked = [n |-> 2, some |-> TRUE, items |-> <<IntV(1), IntV(2)>>]

\* The Header read back is the first word of what serialize wrote.
ReadBack ==
    /\ de_result.kind = "ok"
    /\ ser_result.kind = "ok"
    /\ Len(input) >= 4 /\ Len(output) >= 4
    /\ de_result.at % 4 = 0
    /\ SubSeq(input, de_result.at + 1, de_result.at + 4) = SubSeq(output, 1, 4)

\* C28: serialize writes 4 bytes and reports 4; deserialize of the bytes
\* serialize wrote returns a Header equal to the one written and reports 4
\* bytes, which is how far it moved; deserialize of fewer than 4 bytes is
\* UnexpectedEOF and yields no Header.
C28_HeaderRoundTrip ==
    /\ [](ReadBack => (de_result.header = header /\ de_result.n = 4))
    /\ [][ /\ (output' # output /\ output' # <<>>) =>
                /\ ser_result'.kind = "ok" /\ ser_result'.n = 4
                /\ Len(output') = Len(output) + 4
                /\ \A i \in 1..Len(output) : output'[i] = output[i]
           /\ (de_result' # de_result /\ de_result'.kind # "none") =>
                IF Len(input) - position >= 4
                THEN /\ de_result'.kind = "ok" /\ de_result'.n = 4
                     /\ position' = position + de_result'.n
                ELSE /\ de_result'.kind = "UnexpectedEOF"
                     /\ header' = header ]_vars

\* A Header that is not the magic one, itself read from a file, was written
\* twice and read back from the second word.
C28_Witness ==
    /\ ReadBack
    /\ header = [magic |-> 65536]
    /\ output = <<0, 0, 1, 0, 0, 0, 1, 0>>
    /\ input = output /\ position = 8

\* The number 0x031CF0FF
Hex_031CF0FF == 3 * 16777216 + 1 * 1048576 + 12 * 65536 + 15 * 4096 + 0 * 256 + 15 * 16 + 15

\* The number 0x031CFBBF
Hex_031CFBBF == 3 * 16777216 + 1 * 1048576 + 12 * 65536 + 15 * 4096 + 11 * 256 + 11 * 16 + 15

\* C29 as stated: a new Header is written as the little-endian bytes of
\* 0x031CF0FF, FF F0 1C 03, that number is 52231103 and the value of
\* Header::magic, and is_magical holds exactly for Headers carrying it.
C29_MagicAsStated ==
    /\ Hex_031CF0FF = 52231103
    /\ magic = 52231103
    /\ (header = Header_new /\ ser_result.kind = "ok") =>
           SubSeq(output, 1, 4) = <<255, 240, 28, 3>>
    /\ \A h \in {header, de_result.header} : is_magical(h) <=> h.magic = Hex_031CF0FF

\* C29 as amended: a new Header is written as BF FB 1C 03, the
\* little-endian bytes of 52231103, which is 0x031CFBBF and the value of
\* Header::magic, and is_magical holds exactly for Headers carrying it.
C29_MagicLittleEndian ==
    /\ Hex_031CFBBF = 52231103
    /\ magic = 52231103
    /\ (header = Header_new /\ ser_result.kind = "ok") =>
           SubSeq(output, 1, 4) = <<191, 251, 28, 3>>
    /\ \A h \in {header, de_result.header} : is_magical(h) <=> h.magic = 52231103

\* A new Header was written, and the Header read from the file that holds
\* FF F0 1C 03 is not magical.
C29_Witness ==
    /\ header = Header_new /\ ser_result.kind = "ok"
    /\ output = <<191, 251, 28, 3>>
    /\ de_result.kind = "ok" /\ de_result.header.magic = Hex_031CF0FF
    /\ ~is_magical(de_result.header)

\* C30: a call of forward_len or seek_and_forward_len that started at
\* position loc of an input holding at least loc + len bytes has, when it
\* returns, appended to the output exactly input[loc .. loc+len], in order,
\* whatever the size of the buffer, and after what earlier calls appended.
C30_ForwardLen ==
    [][ ( /\ fwd_status = "running" /\ fwd_status' = "idle"
          /\ fwd_call.from + fwd_call.len <= Len(input) ) =>
        output' = fwd_call.out \o
                  SubSeq(input, fwd_call.from + 1, fwd_call.from + fwd_call.len) ]_vars

\* a is the start of b
Prefix(a, b) == Len(a) <= Len(b) /\ SubSeq(b, 1, Len(a)) = a

\* One of a and b is the start of the other.
Comparable(a, b) == Prefix(a, b) \/ Prefix(b, a)

\* The errors of a history of reports, without their places.
Errors(r) == [k \in 1..Len(r) |-> r[k].err]

\* The stream s has run to the end and handed over every byte.
Finished(s) ==
    s.status = "idle" /\ s.pc >= Len(instructions) /\ s.buf = <<>>

C23_Independent ==
    /\ [](other.status # "none" =>
            /\ Comparable(emitted, other.emitted)
            /\ Comparable(Errors(reported), Errors(other.reported))
            /\ delivered \o buf = emitted
            /\ other.delivered \o other.buf = other.emitted)
    /\ [][ /\ instructions' = instructions
           /\ constants' = constants
           /\ calls' = calls
           /\ \/ other' = other
              \/ /\ other.status = "none"
                 /\ other'.pc = 0 /\ other'.stack = <<>>
                 /\ other'.values = <<>> /\ other'.buf = <<>>
                 /\ other'.status = "idle"
                 /\ Current' = Current
              \/ /\ other' = Current
                 /\ Current' = other ]_vars

\* The second stream was created while the first was inside a read with
\* bytes buffered, and has since delivered bytes of its own.
C23_Witness ==
    /\ other.status = "reading"
    /\ other.buf # <<>>
    /\ other.pc > 0
    /\ status = "idle"
    /\ delivered # <<>>
    /\ Len(delivered) < Len(other.emitted)

\* C31: Pop(n) with n at most the height of the stack removes exactly the
\* top n items, keeps the others in order, moves pc on by one and raises no
\* error; Pop(0) changes nothing but pc, on an empty stack too.
C31_PopWithinStack ==
    [][ (Executing /\ fetch.op = "Pop" /\ fetch.n <= Len(stack)) =>
            /\ stack' = SubSeq(stack, 1, Len(stack) - fetch.n)
            /\ pc' = pc + 1
            /\ status' = "reading"
            /\ ev'.res = "Continue"
            /\ buf' = buf /\ values' = values
            /\ failed' = failed /\ ret' = ret
            /\ (fetch.n = 0 => stack' = stack) ]_vars

\* Pop(1) has just taken constant 2 off the stack, leaving constant 1.
C31_Witness ==
    /\ instructions = <<Output(Mem_Const(3)), Push(Mem_Const(1)),
                        Push(Mem_Const(2)), Pop(1), Output(Mem_StackTop1)>>
    /\ ev.kind = "exec" /\ ev.instr = Pop(1) /\ ev.res = "Continue"
    /\ pc = 4
    /\ Len(stack) = 1
    /\ stack = <<IntV(1)>>

\* C32: Pop(N) with N above the height of the stack is not atomic: it takes
\* every item off the stack and then fails with StackUnderflow, pc staying
\* at the Pop; so the stack is empty whenever a stream has failed at a Pop,
\* and a retried read fails with StackUnderflow again.
C32_PopNotAtomic ==
    /\ []((failed = StackUnderflow /\ fetch.op = "Pop") => stack = <<>>)
    /\ [][ (Executing /\ fetch.op = "Pop" /\ fetch.n > Len(stack)) =>
              /\ stack' = <<>>
              /\ pc' = pc
              /\ status' = "idle"
              /\ ret'.kind = "err" /\ ret'.err = StackUnderflow
              /\ failed' = StackUnderflow
              /\ buf' = buf /\ values' = values ]_vars

\* Pop(3) over two pushed items has failed: both items are gone.
C32_Witness ==
    /\ instructions = <<Output(Mem_Const(3)), Push(Mem_Const(1)),
                        Push(Mem_Const(2)), Pop(3), Output(Mem_StackTop1)>>
    /\ ev.kind = "exec" /\ ev.instr = Pop(3) /\ ev.res = "Err"
    /\ failed = StackUnderflow
    /\ pc = 3
    /\ stack = <<>>

\* C33: the machine steps only inside a read and only while the buffer holds
\* fewer bytes than the destination: every step that executes an instruction
\* or changes pc, stack, bindings or the bytes produced starts in a read
\* whose buffer is shorter than its destination, and between reads pc,
\* stack, bindings and buffer do not change.
C33_NoPreExecution ==
    [][ /\ (\/ ev'.kind = "exec"
            \/ <<pc, stack, values, emitted>>' # <<pc, stack, values, emitted>>) =>
              (status = "reading" /\ Len(buf) < dst_len)
        /\ (status = "reading" /\ Len(buf) >= dst_len) =>
              (ev'.kind = "consume" /\ status' = "idle")
        /\ status # "reading" => machine' = machine ]_vars

\* Output c; Output c read twice with one byte of room: the first Output
\* served both reads, the second was not executed.
C33_Witness ==
    /\ instructions = <<Output(Mem_Const(3)), Output(Mem_Const(3))>>
    /\ status = "idle" /\ ev.kind = "consume"
    /\ pc = 1
    /\ delivered = <<97, 98>>
    /\ buf = <<>>

\* The binding indexes the Load instructions of a template store into.
LoadTargets(t) == {t[k].n : k \in {j \in 1..Len(t) : t[j].op = "Load"}}

\* The instruction about to run reads a binding that no Load of the template
\* stores into, or that lies beyond the binding vector.
ReadsUnsetBinding ==
    /\ Executing
    /\ ReadsMem(fetch)
    /\ fetch.mem.kind = "Binding"
    /\ \/ ~index_below(fetch.mem.i, Len(values))
       \/ fetch.mem.i \notin LoadTargets(instructions)

\* C34: reading a binding that was never loaded, or that lies beyond the
\* binding vector, yields the default value without error and without
\* growing the vector: Output of it appends display(default), no byte for a
\* Null default, Push pushes the default, and a Load from it stores the
\* default in its own target.
C34_UnsetBindingIsDefault ==
    /\ [](ReadsUnsetBinding => get_mem_value(fetch.mem) = MemOk(default))
    /\ [][ ReadsUnsetBinding =>
             /\ fetch.op = "Output" =>
                   /\ status' = "reading" /\ pc' = pc + 1
                   /\ buf' = buf \o display(default)
                   /\ buf' = buf /\ emitted' = emitted
                   /\ values' = values /\ stack' = stack
             /\ fetch.op = "Push" =>
                   /\ status' = "reading" /\ pc' = pc + 1
                   /\ stack' = Append(stack, default)
                   /\ values' = values
             /\ fetch.op = "CondJump" =>
                   /\ values' = values
                   /\ ev'.err \in {NoError, StackUnderflow}
             /\ (fetch.op = "Load" /\ index_below(fetch.n, MAX_VALUES)) =>
                   /\ status' = "reading" /\ pc' = pc + 1
                   /\ values'[fetch.n + 1] = default
                   /\ index_below(fetch.mem.i, Len(values)) =>
                         values'[fetch.mem.i + 1] = values[fetch.mem.i + 1] ]_vars

\* Push Null; Load(2, "ab"); Output(Binding(3)) ran: the vector has three
\* slots, the binding read lies beyond it, and nothing was written.
C34_Witness ==
    /\ instructions = <<Push(Mem_Const(4)), Load(2, Mem_Const(3)),
                        Output(Mem_Binding(3)), Output(Mem_Const(1))>>
    /\ ev.kind = "exec" /\ ev.instr = Output(Mem_Binding(3)) /\ ev.res = "Continue"
    /\ pc = 3
    /\ values = <<default, default, StrV(<<97, 98>>)>>
    /\ emitted = <<>>

\* C35: Push and Load store copies of their own.  A stack item never
\* changes while it is on the stack (the stack only grows and shrinks at its
\* top), and a Load leaves the stack alone, so a pushed binding keeps its
\* value when the binding is loaded again; only a Load changes the binding
\* vector, so Push and Pop leave a loaded binding alone; and no step changes
\* a constant, a parameter or the root value.
C35_OwnedCopies ==
    [][ /\ Comparable(stack, stack')
        /\ (Executing /\ fetch.op = "Load") => stack' = stack
        /\ values' # values => (Executing /\ fetch.op = "Load")
        /\ constants' = constants
        /\ parameters' = parameters
        /\ root' = root ]_vars

\* Load(0, "ab"); Push(Binding(0)); Load(0, 2) ran: the pushed item is still
\* "ab" while binding 0 is 2.
C35_Witness ==
    /\ instructions = <<Load(0, Mem_Const(3)), Push(Mem_Binding(0)),
                        Load(0, Mem_Const(2)), Output(Mem_StackTop1),
                        Output(Mem_Binding(0))>>
    /\ ev.kind = "exec" /\ ev.instr = Load(0, Mem_Const(2))
    /\ pc = 3
    /\ stack = <<StrV(<<97, 98>>)>>
    /\ values = <<IntV(2)>>

\* C36: an executable built by Compiler from a template, run on the input
\* the Interpreter runs on, yields the byte stream the Interpreter yields:
\* once both streams have been read to their end they have delivered the
\* same bytes, "Hello" for the template that outputs a parameter set to
\* "Hello".
C36_CompilerMatchesInterpreter ==
    ( /\ Finished(Current)
      /\ ret.kind = "ok" /\ ret.n = 0
      /\ compiled_status = "idle"
      /\ compiled_ret.kind = "ok" /\ compiled_ret.n = 0 ) =>
        /\ compiled = delivered
        /\ (instructions = <<Output(Mem_Param(1))>> /\ parameters = (1 :> Hello)) =>
              compiled = Hello.s

\* The instruction about to run is a Jump, or a CondJump whose condition
\* holds.
TakenJump ==
    \/ fetch.op = "Jump"
    \/ /\ fetch.op = "CondJump"
       /\ get_mem_value(fetch.mem).res = "Ok"
       /\ stack # <<>>
       /\ should_jump(fetch.cond, stack[Len(stack)], get_mem_value(fetch.mem).v)

\* C37: an instruction that completes without error and is not a taken jump
\* moves pc on by exactly one; an instruction that fails with
\* ConstantMissing, ParameterMissing, CallMissing, or with StackUnderflow
\* outside a Pop, leaves pc, stack, bindings and buffer as they were; an
\* instruction that fails having changed any of them is a Pop.
C37_StepOrUntouched ==
    [][ Executing =>
          /\ (ev'.res \in {"Continue", "Interupt"} /\ ~TakenJump) => pc' = pc + 1
          /\ ( /\ ev'.res = "Err"
               /\ \/ ev'.err.kind \in {"ConstantMissing", "ParameterMissing",
                                       "CallMissing"}
                  \/ ev'.err = StackUnderflow /\ fetch.op # "Pop" ) =>
                machine' = machine
          /\ (ev'.res = "Err" /\ machine' # machine) => fetch.op = "Pop" ]_vars

\* Two pushes and a Call of a function that is not in the table: the read
\* failed with CallMissing, pc at the Call and both items on the stack.
C37_Witness ==
    /\ ev.kind = "exec" /\ ev.res = "Err" /\ ev.err = CallMissing(2)
    /\ ev.instr.op = "Call" /\ ev.instr.n = 1
    /\ pc = 2
    /\ stack = <<IntV(1), IntV(2)>>
    /\ buf = <<>> /\ values = <<>>
    /\ status = "idle" /\ ret = RetErr(CallMissing(2))

\* Every Jump and CondJump of t targets an index above its own.
ForwardOnly(t) ==
    \A k \in 1..Len(t) : t[k].op \in {"Jump", "CondJump"} => t[k].loc > k - 1

\* The last read returned 0 into a non-empty destination: the end.
ReceivedZero ==
    status = "idle" /\ dst_len > 0 /\ ret.kind = "ok" /\ ret.n = 0

\* C38: on a template whose jumps all go forwards a consumer that keeps
\* reading with a non-empty destination, carrying on after Interupt,
\* eventually receives 0 unless an instruction raises an error, and the
\* machine executes at most len(instructions) instructions in all; while a
\* read of Jump(0), or of Pop(0); Jump(0), which jump back and write
\* nothing, never returns.
C38_Terminates ==
    /\ ForwardOnly(instructions) =>
          <>(ReceivedZero \/ failed # NoError \/ status = "panicked")
    /\ [](ForwardOnly(instructions) => steps <= Len(instructions))
    /\ [][ ( /\ instructions \in {<<Jump(0)>>, <<Pop(0), Jump(0)>>}
             /\ status = "reading" ) => status' = "reading" ]_vars

\* Output; Interupt; Output; Interupt was read to its end: both Interupts
\* were reported, four instructions ran and the last read returned 0.
C38_Witness ==
    /\ instructions = <<Output(Mem_Const(3)), Interupt, Output(Mem_Const(1)),
                        Interupt>>
    /\ ReceivedZero
    /\ Len(reported) = 2
    /\ steps = 4
    /\ delivered = <<97, 98, 49>>

\* C39: forward_len returns after at most floor(len / buf.len()) + 1 copy
\* steps, whatever len and the length of the buffer; for the buffer of
\* length zero, where the quotient is not defined, after at most len + 1.
C39_ForwardLenTerminates ==
    fwd_call.copies <=
        (IF scratch = <<>> THEN fwd_call.len
         ELSE fwd_call.len \div Len(scratch)) + 1

\* C40: a call of forward_len, and so each cp and cp_len in it, has
\* written to the output no more bytes than it has read from the input.
C40_WritesOnlyWhatWasRead ==
    Len(output) - Len(fwd_call.out) <= fwd_call.got

====
